---- MODULE Spec2Model ----
(***************************************************************************)
(* Final Escape: particle system, player health/invulnerability, the       *)
(* Playing-state frame update and the game-flow controller of src/main.py. *)
(*                                                                         *)
(* Time is measured in integer ticks.  One second is TicksPerSecond ticks  *)
(* and a frame lasts between 1 and MaxDt ticks, so that every timer of the *)
(* program (age, invulnerability, fade, cool-down, countdown) is crossed   *)
(* both exactly and with overshoot.                                        *)
(***************************************************************************)
EXTENDS Integers, Sequences, FiniteSets

\* ------------------------------------------------------------------------
\* Bounds of the model
\* ------------------------------------------------------------------------
TicksPerSecond == 2
MaxDt == 2
MaxParticles == 2
MaxIds == 5
MaxLifetime == 3
MaxEmit == 2
MaxAsteroids == 2
MaxLoopAsteroids == 1
MaxScore == 40
MaxDestroyed == 2
MaxBlast == 4
MaxOptions == 3
MaxWeight == 3
MaxLoopPowerups == 1
MaxPowerupScore == 150
MaxWidth == 4
MaxHeight == 3
MaxSize == 2
MaxOffset == 1
MaxSpeed == 2
MaxItems == 4

Min(a, b) == IF a < b THEN a ELSE b
Max(a, b) == IF a > b THEN a ELSE b

VARIABLES
  particles,       \* effects/particles.py ParticleSystem.particles (list)
  nav_particles,   \* asteroid_navigator.py ParticleSystem.particles (list)
  next_id,         \* identity of the next Particle object constructed
  last_dt,         \* dt of the latest ParticleSystem.update, 0 after an add
  difficulty,      \* SettingsManager.settings["difficulty"]
  current_state,   \* Game.current_state
  music,           \* the track handed to AssetLoader.play_music last
  menu_state,      \* Game.menu_state (MenuState)
  countdown_state, \* Game.countdown_state (CountdownState)
  game_state,      \* Game.game_state (GameState, with its Player)
  game_over_state, \* Game.game_over_state (GameOverState)
  game_over_elapsed, \* time spent by updates in STATE_GAME_OVER (observation)
  countdown_elapsed, \* time spent by updates in STATE_COUNTDOWN (observation)
  selection,       \* the latest weighted selection: its inputs and outcome
  asteroid,        \* one Asteroid sprite followed through its motion updates
  menu             \* one Menu component with its items (menu_component.py)

pvars == <<particles, nav_particles, next_id, last_dt, selection, asteroid,
           menu>>
gvars == <<difficulty, current_state, music, menu_state, countdown_state,
           game_state, game_over_state, game_over_elapsed, countdown_elapsed>>
vars == <<particles, nav_particles, next_id, last_dt, selection, asteroid,
          menu, difficulty,
          current_state, music, menu_state, countdown_state, game_state,
          game_over_state, game_over_elapsed, countdown_elapsed>>

\* ------------------------------------------------------------------------
\* Particle and ParticleSystem
\* A particle is [id, age, lifetime]; position, velocity, colour and size
\* do not influence membership of the list.
\* ------------------------------------------------------------------------
DtValues == 1..MaxDt
Lifetimes == 1..MaxLifetime

Particle(id, lifetime) == [id |-> id, age |-> 0, lifetime |-> lifetime]

\* variant of Particle.update that keeps a particle whose age equals its lifetime
ParticleUpdateInclusive(p, dt) ==
  LET q == [p EXCEPT !.age = p.age + dt]
  IN  [particle |-> q, alive |-> q.age <= q.lifetime]

\* Particle.update: advances the age, returns (as .alive) age < lifetime
ParticleUpdate(p, dt) ==
  LET q == [p EXCEPT !.age = p.age + dt]
  IN  [particle |-> q, alive |-> q.age < q.lifetime]

\* variant of add_particle without the capacity test
add_particle_unbounded(ps, p) == Append(ps, p)

\* effects/particles.py: the particle is appended only below capacity
add_particle(ps, p) ==
  IF Len(ps) < MaxParticles THEN Append(ps, p) ELSE ps

\* asteroid_navigator.py: pop(0) at capacity, then append
nav_add_particle(ps, p) ==
  LET kept == IF Len(ps) >= MaxParticles THEN Tail(ps) ELSE ps
  IN  Append(kept, p)

\* emit_particles: count particles, each with its own drawn lifetime, are
\* constructed and handed to add_particle in order
RECURSIVE emit_particles(_, _, _)
emit_particles(ps, id, lifetimes) ==
  IF lifetimes = <<>> THEN ps
  ELSE emit_particles(add_particle(ps, Particle(id, Head(lifetimes))),
                      id + 1, Tail(lifetimes))

RECURSIVE nav_emit_particles(_, _, _)
nav_emit_particles(ps, id, lifetimes) ==
  IF lifetimes = <<>> THEN ps
  ELSE nav_emit_particles(nav_add_particle(ps, Particle(id, Head(lifetimes))),
                          id + 1, Tail(lifetimes))

\* ParticleSystem.update: [p for p in self.particles if p.update(dt)]
RECURSIVE particles_update(_, _)
particles_update(ps, dt) ==
  IF ps = <<>> THEN <<>>
  ELSE LET r == ParticleUpdate(Head(ps), dt)
           rest == particles_update(Tail(ps), dt)
       IN  IF r.alive THEN <<r.particle>> \o rest ELSE rest

\* ------------------------------------------------------------------------
\* Program constants.  Durations are written in tenths of a second, as the
\* source writes them in seconds (1.0 -> 10); timers are kept in units of
\* 1/(10 * TicksPerSecond) s, so that a frame of dt ticks adds Dt(dt) and a
\* duration of d tenths is reached at Dur(d), both exactly.
\* ------------------------------------------------------------------------
STATE_MENU == 0
STATE_COUNTDOWN == 1
STATE_PLAYING == 2
STATE_GAME_OVER == 3
STATE_SETTINGS == 4
NONE == -1
States == {STATE_MENU, STATE_COUNTDOWN, STATE_PLAYING, STATE_GAME_OVER,
           STATE_SETTINGS}

PLAYER_MAX_HEALTH == 100
invulnerable_duration == 10
FADE_DURATION == 10
COUNTDOWN_DURATION == 30
delay_threshold == 10
menu_transition_duration == 5
ASTEROID_SPAWN_RATE == 5
flash_rate == 1

Dt(dt) == dt * 10
Dur(d) == d * TicksPerSecond

DIFFICULTY_LEVELS ==
  <<"Empty Space", "Normal Space", "We did not agree on that",
    "You kidding", "Hell No!!!">>

Tiers == {DIFFICULTY_LEVELS[i] : i \in DOMAIN DIFFICULTY_LEVELS}

\* multipliers in tenths (0.5 -> 5)
DIFFICULTY_SPAWN_RATE_MULTIPLIERS ==
  [d \in Tiers |->
     CASE d = "Empty Space" -> 5
       [] d = "Normal Space" -> 10
       [] d = "We did not agree on that" -> 15
       [] d = "You kidding" -> 20
       [] d = "Hell No!!!" -> 30]

\* weights of the asteroid types 0..6, at positions 1..7
DIFFICULTY_ASTEROID_VARIETY ==
  [d \in Tiers |->
     CASE d = "Empty Space" -> <<40, 30, 20, 10, 0, 0, 0>>
       [] d = "Normal Space" -> <<25, 20, 15, 10, 7, 4, 2>>
       [] d = "We did not agree on that" -> <<15, 15, 20, 20, 15, 10, 5>>
       [] d = "You kidding" -> <<10, 10, 15, 20, 20, 15, 10>>
       [] d = "Hell No!!!" -> <<5, 5, 10, 15, 20, 25, 20>>]

SML == <<"small", "medium", "large">>
SM == <<"small", "medium">>
S == <<"small">>

\* allowed size categories of the asteroid types 0..6, at positions 1..7
DIFFICULTY_SIZE_RESTRICTIONS ==
  [d \in Tiers |->
     CASE d = "Empty Space" -> <<SM, SM, S, S, S, S, S>>
       [] d = "Normal Space" -> <<SML, SML, SML, SM, SM, S, S>>
       [] d = "We did not agree on that" -> <<SML, SML, SML, SML, SM, SM, S>>
       [] d = "You kidding" -> <<SML, SML, SML, SML, SML, SM, SM>>
       [] d = "Hell No!!!" -> <<SML, SML, SML, SML, SML, SML, SM>>]

ASTEROID_BASE_DAMAGE == <<5, 10, 15, 25, 35, 50, 80>>

\* multipliers in tenths (1.5 -> 15)
ASTEROID_SIZE_DAMAGE_MULTIPLIERS ==
  [s \in {"small", "medium", "large"} |->
     CASE s = "small" -> 10 [] s = "medium" -> 15 [] s = "large" -> 20]

\* ------------------------------------------------------------------------
\* Player (entities/player.py).  since_hit is an observation, not a field of
\* the source: the time Player.update has accumulated since damage was last
\* applied to this player, saturating at the invulnerability duration (a
\* player that was never hit counts as saturated).
\* ------------------------------------------------------------------------
NewPlayer ==
  [health |-> PLAYER_MAX_HEALTH, invulnerable |-> FALSE,
   invulnerable_timer |-> 0, flash_timer |-> 0, flash_visible |-> TRUE,
   since_hit |-> Dur(invulnerable_duration)]

\* variant of take_damage in which an ignored hit restarts the window
take_damage_extending(p, amount) ==
  IF p.invulnerable
  THEN [player |-> [p EXCEPT
                      !.invulnerable_timer = Dur(invulnerable_duration)],
        applied |-> FALSE]
  ELSE [player |-> [p EXCEPT !.health = Max(0, p.health - amount),
                             !.invulnerable = TRUE,
                             !.invulnerable_timer = Dur(invulnerable_duration),
                             !.flash_timer = Dur(flash_rate),
                             !.flash_visible = TRUE,
                             !.since_hit = 0],
        applied |-> TRUE]

\* variant of take_damage without the clamp at 0
take_damage_unclamped(p, amount) ==
  IF p.invulnerable THEN [player |-> p, applied |-> FALSE]
  ELSE [player |-> [p EXCEPT !.health = p.health - amount,
                             !.invulnerable = TRUE,
                             !.invulnerable_timer = Dur(invulnerable_duration),
                             !.flash_timer = Dur(flash_rate),
                             !.flash_visible = TRUE,
                             !.since_hit = 0],
        applied |-> TRUE]

\* variant of take_damage that does not test the invulnerable flag
take_damage_ungated(p, amount) ==
  [player |-> [p EXCEPT !.health = Max(0, p.health - amount),
                        !.invulnerable = TRUE,
                        !.invulnerable_timer = Dur(invulnerable_duration),
                        !.flash_timer = Dur(flash_rate),
                        !.flash_visible = TRUE,
                        !.since_hit = 0],
   applied |-> TRUE]

\* variant of take_damage that does not start the invulnerability window
take_damage_no_window(p, amount) ==
  IF p.invulnerable THEN [player |-> p, applied |-> FALSE]
  ELSE [player |-> [p EXCEPT !.health = Max(0, p.health - amount),
                             !.since_hit = 0],
        applied |-> TRUE]

\* Player.take_damage: returns the player and whether damage was applied
take_damage(p, amount) ==
  IF p.invulnerable THEN [player |-> p, applied |-> FALSE]
  ELSE LET h == p.health - amount
       IN  [player |-> [p EXCEPT !.health = IF h < 0 THEN 0 ELSE h,
                                 !.invulnerable = TRUE,
                                 !.invulnerable_timer = Dur(invulnerable_duration),
                                 !.flash_timer = Dur(flash_rate),
                                 !.flash_visible = TRUE,
                                 !.since_hit = 0],
            applied |-> TRUE]

\* Player.update, the invulnerability timer and the flashing (movement does
\* not touch them)
player_update(p, dt) ==
  LET seen == Min(p.since_hit + Dt(dt), Dur(invulnerable_duration))
  IN  IF p.invulnerable
      THEN LET t == p.invulnerable_timer - Dt(dt)
               f == p.flash_timer - Dt(dt)
               flashed == IF f <= 0
                          THEN [p EXCEPT !.flash_visible = ~p.flash_visible,
                                         !.flash_timer = Dur(flash_rate)]
                          ELSE [p EXCEPT !.flash_timer = f]
           IN  [flashed EXCEPT !.invulnerable_timer = t,
                               !.invulnerable = ~(t <= 0),
                               !.flash_visible =
                                  IF t <= 0 THEN TRUE ELSE flashed.flash_visible,
                               !.since_hit = seen]
      ELSE [p EXCEPT !.since_hit = seen]

\* ------------------------------------------------------------------------
\* Asteroid (entities/asteroid.py) and the choice of its type and size
\* (GameState._choose_asteroid_type).  random.choice(list) is list[k] for a
\* drawn position k; the draws are taken from the two ends of the list.
\* ------------------------------------------------------------------------
Draws(n) == IF n = 0 THEN {} ELSE {1, n}

\* variant of the damage that rounds the product to the nearest integer
AsteroidDamage_rounded(type_id, size_category) ==
  (ASTEROID_BASE_DAMAGE[type_id + 1]
     * ASTEROID_SIZE_DAMAGE_MULTIPLIERS[size_category] + 5) \div 10

\* self.damage = int(base_damage * size_multiplier)
AsteroidDamage(type_id, size_category) ==
  (ASTEROID_BASE_DAMAGE[type_id + 1]
     * ASTEROID_SIZE_DAMAGE_MULTIPLIERS[size_category]) \div 10

Asteroid(type_id, size_category) ==
  [asteroid_type |-> type_id, size_category |-> size_category,
   damage |-> AsteroidDamage(type_id, size_category)]

Variety(d) ==
  IF d \in DOMAIN DIFFICULTY_ASTEROID_VARIETY
  THEN DIFFICULTY_ASTEROID_VARIETY[d]
  ELSE DIFFICULTY_ASTEROID_VARIETY["Normal Space"]

\* variant of the allowed sizes that reads the last tier's table whatever
\* the difficulty
AllowedSizes_last_tier(d, type_id) ==
  LET table == DIFFICULTY_SIZE_RESTRICTIONS["Hell No!!!"]
  IN  IF type_id + 1 \in DOMAIN table THEN table[type_id + 1] ELSE S

AllowedSizes(d, type_id) ==
  LET table == IF d \in DOMAIN DIFFICULTY_SIZE_RESTRICTIONS
               THEN DIFFICULTY_SIZE_RESTRICTIONS[d]
               ELSE DIFFICULTY_SIZE_RESTRICTIONS["Normal Space"]
  IN  IF type_id + 1 \in DOMAIN table THEN table[type_id + 1] ELSE S

RECURSIVE Repeat(_, _)
Repeat(x, n) == IF n <= 0 THEN <<>> ELSE <<x>> \o Repeat(x, n - 1)

RECURSIVE WeightedTypes_floor(_, _)
RECURSIVE WeightedTypes(_, _)
\* variant of weighted_types that enters every type at least once
WeightedTypes_floor(weights, i) ==
  IF i > Len(weights) THEN <<>>
  ELSE Repeat(i - 1, Max(1, weights[i])) \o WeightedTypes_floor(weights, i + 1)

\* weighted_types: for each type in table order, [type_id] * weight
WeightedTypes(weights, i) ==
  IF i > Len(weights) THEN <<>>
  ELSE Repeat(i - 1, weights[i]) \o WeightedTypes(weights, i + 1)

\* the asteroids _choose_asteroid_type can return under difficulty d
ChosenAsteroids(d) ==
  LET weighted_types == WeightedTypes(Variety(d), 1)
  IN  {Asteroid(weighted_types[k], AllowedSizes(d, weighted_types[k])[j]) :
         <<k, j>> \in {<<k, j>> \in Draws(Len(weighted_types)) \X {1, 2, 3} :
                          j \in Draws(Len(AllowedSizes(d, weighted_types[k])))}}

\* weighted_types of the five tiers, computed once
WeightedTypesOf == [d \in Tiers |-> WeightedTypes(Variety(d), 1)]

\* random.choice(seq) for the drawn position k: raises IndexError on an
\* empty sequence
random_choice(seq, k) ==
  IF Len(seq) = 0 THEN [raised |-> TRUE, value |-> NONE]
  ELSE [raised |-> FALSE, value |-> seq[k]]

\* _choose_asteroid_type, the choice of the type for a table of weights and
\* a drawn position k of the weighted list; the exception of random.choice
\* is not caught
choose_asteroid_type(weights, k) ==
  random_choice(WeightedTypes(weights, 1), k)

\* a tier name the settings collaborator can hand over that is none of
\* DIFFICULTY_LEVELS
UnknownTier == "Unknown Space"

\* ChosenAsteroids of the five tiers and of the unknown one, computed once
AsteroidDraws == [d \in Tiers \cup {UnknownTier} |-> ChosenAsteroids(d)]

\* variant of the interval whose fallback is the first tier's multiplier
SpawnIntervals_first_tier(d) ==
  LET m == IF d \in DOMAIN DIFFICULTY_SPAWN_RATE_MULTIPLIERS
           THEN DIFFICULTY_SPAWN_RATE_MULTIPLIERS[d]
           ELSE DIFFICULTY_SPAWN_RATE_MULTIPLIERS["Empty Space"]
  IN  {(Dur(ASTEROID_SPAWN_RATE) * 8) \div m,
       (Dur(ASTEROID_SPAWN_RATE) * 12) \div m}

\* _get_spawn_interval: uniform(0.8, 1.2) * ASTEROID_SPAWN_RATE / multiplier,
\* the two ends of the range
SpawnIntervals(d) ==
  LET m == IF d \in DOMAIN DIFFICULTY_SPAWN_RATE_MULTIPLIERS
           THEN DIFFICULTY_SPAWN_RATE_MULTIPLIERS[d] ELSE 10
  IN  {(Dur(ASTEROID_SPAWN_RATE) * 8) \div m,
       (Dur(ASTEROID_SPAWN_RATE) * 12) \div m}

\* ------------------------------------------------------------------------
\* weighted_random_choice (engine/utils.py; utils/helpers.py and
\* asteroid_navigator.py hold the same text).  The dictionary is the sequence
\* of its weights in iteration order, the key of an entry is its position;
\* rand_val is the value drawn by random.uniform(0, total).
\* ------------------------------------------------------------------------
RECURSIVE Sum(_)
Sum(weights) ==
  IF weights = <<>> THEN 0 ELSE Head(weights) + Sum(Tail(weights))

RECURSIVE walk_options_strict(_, _, _, _)
RECURSIVE walk_options(_, _, _, _)
\* variant of the loop that compares with < instead of <=
walk_options_strict(weights, rand_val, i, cumulative) ==
  IF i > Len(weights)
  THEN IF Len(weights) > 0 THEN 1 ELSE NONE
  ELSE IF rand_val < cumulative + weights[i]
       THEN i
       ELSE walk_options_strict(weights, rand_val, i + 1,
                                cumulative + weights[i])

\* the loop over the weights from entry i on, and the fallback after it
walk_options(weights, rand_val, i, cumulative) ==
  IF i > Len(weights)
  THEN IF Len(weights) > 0 THEN 1 ELSE NONE
  ELSE IF rand_val <= cumulative + weights[i]
       THEN i
       ELSE walk_options(weights, rand_val, i + 1, cumulative + weights[i])

weighted_random_choice(weights, rand_val) ==
  walk_options(weights, rand_val, 1, 0)

\* the record of a selection: the function called, its inputs, what it
\* returned and whether it raised; fn is "none" before the call
Pending(weights) ==
  [fn |-> "none", weights |-> weights, draw |-> 0, result |-> NONE,
   raised |-> FALSE]

NoSelection == Pending(<<>>)

\* ------------------------------------------------------------------------
\* Events of the pygame queue, as far as the handlers distinguish them
\* ------------------------------------------------------------------------
KeyDown == {"K_ESCAPE", "K_F11", "K_SPACE", "K_RETURN", "K_s", "K_OTHER"}
Events == KeyDown \cup {"QUIT", "MOUSEBUTTONDOWN", "JOYBUTTONDOWN",
                        "MOUSEMOTION"}

\* ------------------------------------------------------------------------
\* MenuState (states/menu_state.py).  The selection inside a menu component
\* (selected item, appearance progress, mouse geometry) is not modelled: what
\* active_menu.handle_event returns is drawn from the values the component
\* can return for the event.
\* ------------------------------------------------------------------------
NewMenuState ==
  [active_menu |-> "main", transition_out |-> FALSE, transition_timer |-> 0,
   transition_target |-> NONE, menu_transition |-> FALSE,
   menu_transition_timer |-> 0]

\* MainMenu.handle_event / SettingsMenu.handle_event over MenuComponent
MenuResults(active_menu, e) ==
  IF active_menu = "main"
  THEN CASE e \in {"K_RETURN", "K_SPACE", "MOUSEBUTTONDOWN"} ->
              {NONE, STATE_COUNTDOWN, STATE_SETTINGS}
         [] e = "K_s" -> {NONE, STATE_SETTINGS}
         [] OTHER -> {NONE}
  ELSE CASE e \in {"K_RETURN", "K_SPACE", "MOUSEBUTTONDOWN", "K_ESCAPE"} ->
              {NONE, STATE_MENU}
         [] OTHER -> {NONE}

\* the three branches shared by MenuState.handle_event and MenuState.update
menu_apply_result(ms, result) ==
  CASE result = STATE_COUNTDOWN ->
         [ms EXCEPT !.transition_out = TRUE, !.transition_timer = 0,
                    !.transition_target = STATE_COUNTDOWN]
    [] result = STATE_SETTINGS ->
         [ms EXCEPT !.menu_transition = TRUE, !.menu_transition_timer = 0,
                    !.active_menu = "settings"]
    [] result = STATE_MENU ->
         [ms EXCEPT !.menu_transition = TRUE, !.menu_transition_timer = 0,
                    !.active_menu = "main"]
    [] OTHER -> ms

\* MenuState.handle_event: always returns None
menu_handle_event(ms, result) ==
  IF ms.transition_out \/ ms.menu_transition
  THEN [state |-> ms, ret |-> NONE]
  ELSE [state |-> menu_apply_result(ms, result), ret |-> NONE]

\* MenuState.update (active_menu.update returns None); .music is the track
\* the update starts, "none" when it starts none
menu_update(ms, dt) ==
  IF ms.menu_transition
  THEN LET t == ms.menu_transition_timer + Dt(dt)
       IN  [state |-> [ms EXCEPT !.menu_transition_timer = t,
                                 !.menu_transition =
                                    ~(t >= Dur(menu_transition_duration))],
            ret |-> NONE, music |-> "none"]
  ELSE IF ms.transition_out
  THEN LET t == ms.transition_timer + Dt(dt)
           after == [ms EXCEPT !.transition_timer = t]
       IN  IF t >= Dur(FADE_DURATION)
           THEN [state |-> after, ret |-> ms.transition_target,
                 music |-> IF ms.transition_target = STATE_COUNTDOWN
                           THEN "game" ELSE "none"]
           ELSE [state |-> after, ret |-> NONE, music |-> "none"]
  ELSE [state |-> ms, ret |-> NONE, music |-> "none"]

\* ------------------------------------------------------------------------
\* CountdownState (states/countdown_state.py)
\* ------------------------------------------------------------------------
NewCountdownState ==
  [timer |-> 0, transition_out |-> FALSE, transition_timer |-> 0]

countdown_handle_event(cs, e) ==
  IF e = "K_SPACE"
  THEN [state |-> [cs EXCEPT !.timer = Dur(COUNTDOWN_DURATION),
                             !.transition_out = TRUE,
                             !.transition_timer = 0],
        ret |-> STATE_PLAYING]
  ELSE [state |-> cs, ret |-> NONE]

countdown_update(cs, dt) ==
  LET timed == [cs EXCEPT !.timer = cs.timer + Dt(dt)]
      started == IF timed.timer >= Dur(COUNTDOWN_DURATION)
                    /\ ~timed.transition_out
                 THEN [timed EXCEPT !.transition_out = TRUE,
                                    !.transition_timer = 0]
                 ELSE timed
  IN  IF started.transition_out
      THEN LET t == started.transition_timer + Dt(dt)
           IN  [state |-> [started EXCEPT !.transition_timer = t],
                ret |-> IF t >= Dur(FADE_DURATION) THEN STATE_PLAYING
                        ELSE NONE]
      ELSE [state |-> started, ret |-> NONE]

\* ------------------------------------------------------------------------
\* GameOverState (states/game_over_state.py)
\* ------------------------------------------------------------------------
NewGameOverState ==
  [final_score |-> 0, allow_transition |-> FALSE, delay_timer |-> 0,
   transition_requested |-> FALSE]

set_score(gos, score) ==
  [gos EXCEPT !.final_score = score, !.allow_transition = FALSE,
              !.delay_timer = 0, !.transition_requested = FALSE]

\* variant of GameOverState.handle_event that answers with STATE_PLAYING
game_over_handle_event_replay(gos, e) ==
  IF ~gos.allow_transition THEN [state |-> gos, ret |-> NONE]
  ELSE IF e \in KeyDown \cup {"MOUSEBUTTONDOWN", "JOYBUTTONDOWN"}
  THEN [state |-> [gos EXCEPT !.transition_requested = TRUE],
        ret |-> STATE_PLAYING]
  ELSE [state |-> gos, ret |-> NONE]

game_over_handle_event(gos, e) ==
  IF ~gos.allow_transition THEN [state |-> gos, ret |-> NONE]
  ELSE IF e \in KeyDown \cup {"MOUSEBUTTONDOWN", "JOYBUTTONDOWN"}
  THEN [state |-> [gos EXCEPT !.transition_requested = TRUE],
        ret |-> STATE_MENU]
  ELSE [state |-> gos, ret |-> NONE]

game_over_update(gos, dt) ==
  LET delayed ==
        IF ~gos.allow_transition
        THEN LET t == gos.delay_timer + Dt(dt)
             IN  [gos EXCEPT !.delay_timer = t,
                             !.allow_transition = (t >= Dur(delay_threshold))]
        ELSE gos
  IN  IF delayed.transition_requested
      THEN [state |-> [delayed EXCEPT !.transition_requested = FALSE],
            ret |-> STATE_MENU]
      ELSE [state |-> delayed, ret |-> NONE]

\* ------------------------------------------------------------------------
\* PowerUp (entities/powerup.py) and the choice of its kind
\* (GameState.spawn_powerup).  src/constants.py sets neither the health
\* power-ups nor the power-up timer constants that game_state.py imports.
\* ------------------------------------------------------------------------
POWERUP_BOOM_ID == "boom"
MAX_ACTIVE_POWERUPS == 2
POWERUP_SPAWN_INTERVAL_MIN == 25
POWERUP_SPAWN_INTERVAL_MAX == 30
SCREEN_WIDTH == 800
SCREEN_HEIGHT == 600
POWERUP_BOOM_EFFECT_RADIUS_FACTOR == 7
BOOM_BONUS == 50
POWERUP_BOOM_CHAIN_EXPLOSIONS == 3
\* in tenths of a second
POWERUP_BOOM_CHAIN_DELAY == 2

HealthId(n) ==
  CASE n = 25 -> "health_25" [] n = 50 -> "health_50" [] n = 100 -> "health_100"

\* POWERUP_TYPES[type_id].get("amount"), None for the boom
POWERUP_TYPES ==
  [t \in {POWERUP_BOOM_ID, HealthId(25), HealthId(50), HealthId(100)} |->
     CASE t = POWERUP_BOOM_ID -> NONE
       [] t = HealthId(25) -> 25
       [] t = HealthId(50) -> 50
       [] t = HealthId(100) -> 100]

PowerUp(type_id) == [type_id |-> type_id, amount |-> POWERUP_TYPES[type_id]]

\* the two random.random() rolls of spawn_powerup, in hundredths
Rolls == {0, 24, 25, 59, 60, 89, 90, 99}

spawn_powerup(power_type_roll, health_roll) ==
  IF power_type_roll < 25 THEN PowerUp(POWERUP_BOOM_ID)
  ELSE IF health_roll < 60 THEN PowerUp(HealthId(25))
  ELSE IF health_roll < 90 THEN PowerUp(HealthId(50))
  ELSE PowerUp(HealthId(100))

SpawnedPowerUps == {spawn_powerup(a, b) : a \in Rolls, b \in Rolls}

\* _get_next_powerup_spawn_interval: uniform(MIN, MAX), the two ends
PowerupSpawnIntervals ==
  {Dur(POWERUP_SPAWN_INTERVAL_MIN), Dur(POWERUP_SPAWN_INTERVAL_MAX)}

\* PowerUp.activate: only the boom has an effect
\* player.position.copy(); positions are not modelled
PlayerPosition == 0

activate(gs, powerup) ==
  IF powerup.type_id = POWERUP_BOOM_ID
  THEN [gs EXCEPT !.boom_effect_active = TRUE,
                  !.boom_center = PlayerPosition,
                  !.booms_collected = @ + 1]
  ELSE gs

\* ------------------------------------------------------------------------
\* GameState (states/game_state.py).  Positions are not modelled: which
\* asteroids and power-ups leave the screen or overlap the player in a frame
\* are inputs of the update (fate, pfate), and so is the distance of each
\* asteroid to the boom centre, given less the asteroid's own radius (reach).
\* asteroid_hits, boom_destroyed, powerup_log and booms_collected are
\* observations: the hit list of the latest update that computed one, the
\* number of asteroids the booms of the episode have destroyed, what the
\* power-up timer did in the latest update (the line it printed, if any),
\* and the number of booms that the latest check_powerup_collisions has
\* activated.
\* ------------------------------------------------------------------------
NewGameState(interval, pinterval) ==
  [player |-> NewPlayer, asteroids |-> <<>>, powerups |-> <<>>, score |-> 0,
   asteroid_spawn_timer |-> 0, next_spawn_interval |-> interval,
   powerup_spawn_timer |-> 0, next_powerup_spawn_interval |-> pinterval,
   transition_out |-> FALSE, transition_timer |-> 0,
   boom_effect_active |-> FALSE, boom_center |-> NONE,
   booms_collected |-> 0, scheduled_sounds |-> <<>>,
   played_sounds |-> <<>>, asteroid_hits |-> <<>>,
   boom_destroyed |-> 0, powerup_log |-> "none"]

\* GameState.reset: every modelled field is assigned afresh
reset(gs, interval, pinterval) ==
  [gs EXCEPT !.player = NewPlayer, !.asteroids = <<>>, !.powerups = <<>>,
             !.score = 0,
             !.asteroid_spawn_timer = 0, !.next_spawn_interval = interval,
             !.powerup_spawn_timer = 0,
             !.next_powerup_spawn_interval = pinterval,
             !.transition_out = FALSE, !.transition_timer = 0,
             !.boom_effect_active = FALSE, !.boom_center = NONE,
             !.booms_collected = 0, !.scheduled_sounds = <<>>,
             !.played_sounds = <<>>, !.asteroid_hits = <<>>,
             !.boom_destroyed = 0, !.powerup_log = "none"]

\* the elements of seq whose fate is in kinds, in the order of seq
RECURSIVE WithFate(_, _, _, _)
WithFate(seq, fate, kinds, i) ==
  IF i > Len(seq) THEN <<>>
  ELSE (IF fate[i] \in kinds THEN <<seq[i]>> ELSE <<>>)
         \o WithFate(seq, fate, kinds, i + 1)

Fates(gs) == [1..Len(gs.asteroids) -> {"stay", "culled", "hit"}]

PowerUpFates(gs) == [1..Len(gs.powerups) -> {"stay", "culled", "collected"}]

\* min(screen_width, screen_height) * POWERUP_BOOM_EFFECT_RADIUS_FACTOR
explosion_radius ==
  (Min(SCREEN_WIDTH, SCREEN_HEIGHT) * POWERUP_BOOM_EFFECT_RADIUS_FACTOR)
    \div 10

Reaches(gs) ==
  [1..Len(gs.asteroids) ->
     IF gs.boom_effect_active
     THEN {0, explosion_radius - 1, explosion_radius}
     ELSE {explosion_radius}]

\* variant of the blast test that includes the boundary distance
InBlast_inclusive(reach) == reach <= explosion_radius

\* the boom: distance < explosion_radius + asteroid.radius
InBlast(reach) == reach < explosion_radius

\* for asteroid in asteroid_hits: ... (with the break on death)
RECURSIVE collide(_, _)
collide(gs, hits) ==
  IF hits = <<>> THEN gs
  ELSE IF ~gs.player.invulnerable
  THEN LET r == take_damage(gs.player, Head(hits).damage)
           damaged == [gs EXCEPT !.player = r.player]
       IN  IF r.applied /\ r.player.health <= 0
           THEN [damaged EXCEPT !.transition_out = TRUE,
                                !.transition_timer = 0]
           ELSE collide(damaged, Tail(hits))
  ELSE collide(gs, Tail(hits))

\* check_powerup_collisions: for powerup in powerup_hits: powerup.activate
RECURSIVE check_powerup_collisions(_, _)
check_powerup_collisions(gs, powerup_hits) ==
  IF powerup_hits = <<>> THEN gs
  ELSE check_powerup_collisions(activate(gs, Head(powerup_hits)),
                                Tail(powerup_hits))

\* variant of the power-up spawning that does not count the live power-ups
powerup_spawning_uncapped(gs, dt, in) ==
  LET ptimer == gs.powerup_spawn_timer + Dt(dt)
  IN  IF ptimer >= gs.next_powerup_spawn_interval
      THEN [gs EXCEPT !.powerup_spawn_timer = 0,
                      !.next_powerup_spawn_interval = in.pinterval,
                      !.powerups = Append(@, in.powerup),
                      !.powerup_log = "spawned"]
      ELSE [gs EXCEPT !.powerup_spawn_timer = ptimer,
                      !.powerup_log = "none"]

\* GameState.update, the independent power-up spawning
powerup_spawning(gs, dt, in) ==
  LET ptimer == gs.powerup_spawn_timer + Dt(dt)
  IN  IF ptimer >= gs.next_powerup_spawn_interval
      THEN IF Len(gs.powerups) < MAX_ACTIVE_POWERUPS
           THEN [gs EXCEPT !.powerup_spawn_timer = 0,
                           !.next_powerup_spawn_interval = in.pinterval,
                           !.powerups = Append(@, in.powerup),
                           !.powerup_log = "spawned"]
           ELSE [gs EXCEPT !.powerup_spawn_timer = 0,
                           !.next_powerup_spawn_interval = in.pinterval,
                           !.powerup_log = "skipped"]
      ELSE [gs EXCEPT !.powerup_spawn_timer = ptimer,
                      !.powerup_log = "none"]

\* variant of the fade-out branch in which the score keeps growing
game_update_fade_scoring(gs, dt) ==
  LET t == gs.transition_timer + Dt(dt)
  IN  [state |-> [gs EXCEPT !.transition_timer = t,
                            !.score = gs.score + dt * 10],
       ret |-> IF t >= Dur(FADE_DURATION) THEN STATE_GAME_OVER ELSE NONE]

\* GameState.update while transition_out is set: the early return
game_update_fade(gs, dt) ==
  LET t == gs.transition_timer + Dt(dt)
  IN  [state |-> [gs EXCEPT !.transition_timer = t],
       ret |-> IF t >= Dur(FADE_DURATION) THEN STATE_GAME_OVER ELSE NONE]

\* the scheduled sounds (GameState.scheduled_sounds): a cue is the record of
\* its position in the chain and of the delay it still has to wait;
\* played_sounds is an observation, the cues in the order in which the
\* latest update that processed the schedule has played them.
\* self.scheduled_sounds.append((sound_asset, i * POWERUP_BOOM_CHAIN_DELAY))
\* for i in range(min(destroyed, POWERUP_BOOM_CHAIN_EXPLOSIONS))
schedule_sounds(sounds, destroyed) ==
  sounds \o [i \in 1..Min(destroyed, POWERUP_BOOM_CHAIN_EXPLOSIONS) |->
              [cue |-> i - 1,
               delay |-> (i - 1) * Dur(POWERUP_BOOM_CHAIN_DELAY)]]

\* the loop over the schedule, from its last entry i down to the first:
\* delay -= dt, then play and pop the entry if delay <= 0
RECURSIVE process_sounds(_, _, _)
process_sounds(sounds, elapsed, i) ==
  IF i < 1 THEN [sounds |-> <<>>, played |-> <<>>]
  ELSE LET rest == process_sounds(sounds, elapsed, i - 1)
           delay == sounds[i].delay - elapsed
       IN  IF delay <= 0
           THEN [sounds |-> rest.sounds,
                 played |-> <<sounds[i].cue>> \o rest.played]
           ELSE [sounds |-> Append(rest.sounds,
                                   [sounds[i] EXCEPT !.delay = delay]),
                 played |-> rest.played]

\* variant of the step that leaves the boom flag and the boom centre as
\* they are
sound_step_keeping(gs, destroyed, elapsed) ==
  LET scheduled == IF gs.boom_effect_active /\ gs.boom_center # NONE
                   THEN schedule_sounds(gs.scheduled_sounds, destroyed)
                   ELSE gs.scheduled_sounds
      processed == process_sounds(scheduled, elapsed, Len(scheduled))
  IN  [gs EXCEPT !.scheduled_sounds = processed.sounds,
                 !.played_sounds = processed.played]

\* GameState.update, the boom flag and the sounds: a pending boom that has
\* destroyed `destroyed` asteroids schedules its cues, then the schedule
\* is processed with the time elapsed in the frame
sound_step(gs, destroyed, elapsed) ==
  LET scheduled == IF gs.boom_effect_active /\ gs.boom_center # NONE
                   THEN schedule_sounds(gs.scheduled_sounds, destroyed)
                   ELSE gs.scheduled_sounds
      processed == process_sounds(scheduled, elapsed, Len(scheduled))
  IN  [gs EXCEPT !.boom_effect_active = FALSE,
                 !.boom_center = IF gs.boom_effect_active THEN NONE ELSE @,
                 !.scheduled_sounds = processed.sounds,
                 !.played_sounds = processed.played]

\* what becomes of each asteroid in the frame: "blast" when the pending boom
\* reaches it, its fate in the frame otherwise
BlastFate(gs, in) ==
  [i \in DOMAIN gs.asteroids |->
     IF gs.boom_effect_active /\ gs.boom_center # NONE
          /\ InBlast(in.reach[i])
     THEN "blast" ELSE in.fate[i]]

\* GameState.update, the boom effect and all_sprites.update
sprites_update(gs, dt, in) ==
  LET fate == BlastFate(gs, in)
      destroyed == Len(WithFate(gs.asteroids, fate, {"blast"}, 1))
  IN  [sound_step(gs, destroyed, Dt(dt)) EXCEPT
         !.score = @ + BOOM_BONUS * TicksPerSecond * destroyed,
         !.boom_destroyed = @ + destroyed,
         !.player = player_update(@, dt),
         !.asteroids = WithFate(@, fate, {"stay", "hit"}, 1),
         !.powerups = WithFate(@, in.pfate, {"stay", "collected"}, 1)]

\* variant of the spawning that spawns once more when the time of the frame
\* covers the interval twice
asteroid_spawning_catching_up(gs, dt, in) ==
  LET timer == gs.asteroid_spawn_timer + Dt(dt)
  IN  IF timer >= gs.next_spawn_interval
      THEN [gs EXCEPT !.asteroid_spawn_timer = 0,
                      !.next_spawn_interval = in.interval,
                      !.asteroids =
                         IF timer >= 2 * gs.next_spawn_interval
                         THEN Append(Append(@, in.spawned), in.spawned)
                         ELSE Append(@, in.spawned)]
      ELSE [gs EXCEPT !.asteroid_spawn_timer = timer]

\* GameState.update, the asteroid spawning
asteroid_spawning(gs, dt, in) ==
  LET timer == gs.asteroid_spawn_timer + Dt(dt)
  IN  IF timer >= gs.next_spawn_interval
      THEN [gs EXCEPT !.asteroid_spawn_timer = 0,
                      !.next_spawn_interval = in.interval,
                      !.asteroids = Append(@, in.spawned)]
      ELSE [gs EXCEPT !.asteroid_spawn_timer = timer]

\* GameState.update, the collisions with the asteroids and the power-ups of
\* gs that overlap the player in the frame; powered is the state the
\* spawning has left
collisions(gs, powered, in) ==
  LET asteroid_hits == WithFate(gs.asteroids, BlastFate(gs, in), {"hit"}, 1)
      powerup_hits == WithFate(gs.powerups, in.pfate, {"collected"}, 1)
      alive == Len(WithFate(gs.powerups, in.pfate, {"stay", "collected"}, 1))
      kept == WithFate(gs.powerups, in.pfate, {"stay"}, 1)
                \o SubSeq(powered.powerups, alive + 1, Len(powered.powerups))
  IN  check_powerup_collisions(
        [collide([powered EXCEPT !.asteroid_hits = asteroid_hits],
                 asteroid_hits)
           EXCEPT !.powerups = kept, !.booms_collected = 0],
        powerup_hits)

\* GameState.update; in = [fate, reach, interval, spawned, pfate, pinterval,
\* powerup].  The score is kept in units of 1/TicksPerSecond point.  Each
\* step of the update works on the value the step before it has left.
game_update(gs, dt, in) ==
  IF gs.transition_out THEN game_update_fade(gs, dt)
  ELSE CHOOSE r \in
         {[state |-> [collected EXCEPT !.score = @ + dt * 10], ret |-> NONE] :
            collected \in
              {collisions(gs, powered, in) : powered \in
                 {powerup_spawning(spawned, dt, in) : spawned \in
                    {asteroid_spawning(moved, dt, in) : moved \in
                       {sprites_update(gs, dt, in)}}}}} : TRUE

\* GameState.handle_event: returns None, changes nothing
game_handle_event(gs, e) == [state |-> gs, ret |-> NONE]

\* ------------------------------------------------------------------------
\* Game (main.py).  A world is the record of the controller's fields;
\* game_over_elapsed and countdown_elapsed are observations: the time
\* GameOverState.update (CountdownState.update) has accumulated since the
\* controller entered STATE_GAME_OVER (STATE_COUNTDOWN), saturating at the
\* cool-down delay (at the countdown and its fade-out).
\* ------------------------------------------------------------------------
World ==
  [current_state |-> current_state, music |-> music,
   menu_state |-> menu_state, countdown_state |-> countdown_state,
   game_state |-> game_state, game_over_state |-> game_over_state,
   game_over_elapsed |-> game_over_elapsed,
   countdown_elapsed |-> countdown_elapsed]

Becomes(w) ==
  /\ current_state' = w.current_state
  /\ music' = w.music
  /\ menu_state' = w.menu_state
  /\ countdown_state' = w.countdown_state
  /\ game_state' = w.game_state
  /\ game_over_state' = w.game_over_state
  /\ game_over_elapsed' = w.game_over_elapsed
  /\ countdown_elapsed' = w.countdown_elapsed

initializeStates(w, interval, pinterval) ==
  [w EXCEPT !.menu_state = NewMenuState,
            !.countdown_state = NewCountdownState,
            !.game_state = NewGameState(interval, pinterval),
            !.game_over_state = NewGameOverState]

\* toggle_fullscreen: the display mode is not modelled, the re-creation of
\* the states at its end is
toggle_fullscreen(w, interval, pinterval) ==
  initializeStates(w, interval, pinterval)

\* variant of change_state that keeps the states and their data as they are
change_state_stale(w, new_state, interval, pinterval) ==
  IF new_state = w.current_state THEN w
  ELSE
    LET prepared ==
          CASE new_state = STATE_MENU -> [w EXCEPT !.music = "menu"]
            [] new_state = STATE_COUNTDOWN ->
                 [w EXCEPT !.countdown_state = NewCountdownState,
                           !.music = "game"]
            [] new_state = STATE_GAME_OVER ->
                 [w EXCEPT !.music = "game_over"]
            [] OTHER -> w
    IN  [prepared EXCEPT !.current_state = new_state,
                         !.game_over_elapsed = 0,
                         !.countdown_elapsed = 0]

change_state(w, new_state, interval, pinterval) ==
  IF new_state = w.current_state THEN w
  ELSE
    LET prepared ==
          CASE new_state = STATE_MENU ->
                 [(IF w.current_state = STATE_GAME_OVER
                   THEN initializeStates(
                          [w EXCEPT !.game_state =
                                       reset(@, interval, pinterval)],
                          interval, pinterval)
                   ELSE w) EXCEPT !.music = "menu"]
            [] new_state = STATE_COUNTDOWN ->
                 [w EXCEPT !.countdown_state = NewCountdownState,
                           !.game_state = reset(@, interval, pinterval),
                           !.music = "game"]
            [] new_state = STATE_GAME_OVER ->
                 [w EXCEPT !.music = "game_over"]
            [] OTHER -> w
    IN  [prepared EXCEPT !.current_state = new_state,
                         !.game_over_elapsed = 0,
                         !.countdown_elapsed = 0]

\* Game.run, the body of the event loop for one event
run_event(w, e, result, interval, pinterval) ==
  LET toggled == IF e = "K_F11"
                 THEN toggle_fullscreen(w, interval, pinterval) ELSE w
      handled ==
        CASE toggled.current_state \in {STATE_MENU, STATE_SETTINGS} ->
               LET r == menu_handle_event(toggled.menu_state, result)
               IN  [world |-> [toggled EXCEPT !.menu_state = r.state],
                    new_state |-> r.ret]
          [] toggled.current_state = STATE_COUNTDOWN ->
               LET r == countdown_handle_event(toggled.countdown_state, e)
               IN  [world |-> [toggled EXCEPT !.countdown_state = r.state],
                    new_state |-> r.ret]
          [] toggled.current_state = STATE_PLAYING ->
               LET r == game_handle_event(toggled.game_state, e)
               IN  [world |-> [toggled EXCEPT !.game_state = r.state],
                    new_state |-> r.ret]
          [] toggled.current_state = STATE_GAME_OVER ->
               LET r == game_over_handle_event(toggled.game_over_state, e)
               IN  [world |-> [toggled EXCEPT !.game_over_state = r.state],
                    new_state |-> r.ret]
  IN  IF handled.new_state # NONE
      THEN change_state(handled.world, handled.new_state, interval,
                        pinterval)
      ELSE handled.world

\* Game.run, the update of the current state and the change it asks for
run_update(w, dt, in) ==
  LET updated ==
        CASE w.current_state \in {STATE_MENU, STATE_SETTINGS} ->
               LET r == menu_update(w.menu_state, dt)
               IN  [world |-> [w EXCEPT !.menu_state = r.state,
                                        !.music = IF r.music # "none"
                                                  THEN r.music ELSE @],
                    new_state |-> r.ret]
          [] w.current_state = STATE_COUNTDOWN ->
               LET r == countdown_update(w.countdown_state, dt)
               IN  [world |-> [w EXCEPT
                      !.countdown_state = r.state,
                      !.countdown_elapsed =
                         Min(@ + Dt(dt),
                             Dur(COUNTDOWN_DURATION) + Dur(FADE_DURATION))],
                    new_state |-> r.ret]
          [] w.current_state = STATE_PLAYING ->
               CHOOSE u \in
                 {[world |-> [w EXCEPT
                      !.game_state = r.state,
                      !.game_over_state =
                         IF r.ret = STATE_GAME_OVER
                         THEN set_score(@, r.state.score) ELSE @],
                   new_state |-> r.ret] :
                    r \in {game_update(w.game_state, dt, in)}} : TRUE
          [] w.current_state = STATE_GAME_OVER ->
               LET r == game_over_update(w.game_over_state, dt)
               IN  [world |-> [w EXCEPT
                      !.game_over_state = r.state,
                      !.game_over_elapsed =
                         Min(@ + Dt(dt), Dur(delay_threshold))],
                    new_state |-> r.ret]
  IN  CHOOSE next \in
        {IF u.new_state # NONE
         THEN change_state(u.world, u.new_state, in.interval, in.pinterval)
         ELSE u.world : u \in {updated}} : TRUE

\* ------------------------------------------------------------------------
\* Asteroid, its position and its motion update (entities/asteroid.py).
\* The position is kept in units of 1/TicksPerSecond pixel and the velocity
\* in pixels per second, so that position += velocity * dt is exact for a dt
\* of whole ticks.  The velocity points from the spawn position to the
\* target; its length is speed times the distance to the target.
\* ------------------------------------------------------------------------
NoAsteroid ==
  [alive |-> FALSE, actual_size |-> 0, x |-> 0, y |-> 0, vx |-> 0, vy |-> 0,
   screen_width |-> 0, screen_height |-> 0, updates |-> 0]

\* Asteroid.__init__, the spawn position and the velocity: spawn_side is
\* 0: top, 1: right, 2: bottom, 3: left
SpawnPosition(spawn_side, along, actual_size, screen_width, screen_height) ==
  CASE spawn_side = 0 -> <<along, -actual_size>>
    [] spawn_side = 1 -> <<screen_width + actual_size, along>>
    [] spawn_side = 2 -> <<along, screen_height + actual_size>>
    [] spawn_side = 3 -> <<-actual_size, along>>

NewAsteroid(spawn_side, along, actual_size, offset, speed, screen_width, screen_height) ==
  LET pos == SpawnPosition(spawn_side, along, actual_size,
                           screen_width, screen_height)
      target_x == screen_width \div 2 + offset[1]
      target_y == screen_height \div 2 + offset[2]
  IN  [alive |-> TRUE, actual_size |-> actual_size,
       x |-> pos[1] * TicksPerSecond, y |-> pos[2] * TicksPerSecond,
       vx |-> (target_x - pos[1]) * speed,
       vy |-> (target_y - pos[2]) * speed,
       screen_width |-> screen_width, screen_height |-> screen_height,
       updates |-> 0]

\* the asteroids the constructor can build for a window of the given size
NewAsteroids(screen_width, screen_height) ==
  {NewAsteroid(side, along, size, offset, speed, screen_width, screen_height) :
     <<side, along, size, offset, speed>> \in
       {<<side, along, size, offset, speed>> \in
          (0..3) \X (0..Max(screen_width, screen_height)) \X (1..MaxSize)
            \X ((-MaxOffset..MaxOffset) \X (-MaxOffset..MaxOffset))
            \X (1..MaxSpeed) :
          along <= (IF side \in {0, 2} THEN screen_width ELSE screen_height)}}

\* the position is strictly outside the screen widened by buffer on a side
OffScreen(a, buffer) ==
  \/ a.x < -buffer * TicksPerSecond
  \/ a.x > (a.screen_width + buffer) * TicksPerSecond
  \/ a.y < -buffer * TicksPerSecond
  \/ a.y > (a.screen_height + buffer) * TicksPerSecond

\* variant of the update whose buffer is the size of the asteroid
asteroid_update_narrow(a, dt) ==
  LET moved == [a EXCEPT !.x = @ + a.vx * dt, !.y = @ + a.vy * dt,
                         !.updates = Min(@ + 1, 2)]
  IN  IF OffScreen(moved, a.actual_size)
      THEN [moved EXCEPT !.alive = FALSE]
      ELSE moved

\* Asteroid.update: the move, then the kill when off screen with the buffer
asteroid_update(a, dt) ==
  LET moved == [a EXCEPT !.x = @ + a.vx * dt, !.y = @ + a.vy * dt,
                         !.updates = Min(@ + 1, 2)]
      buffer == a.actual_size * 2
  IN  IF OffScreen(moved, buffer)
      THEN [moved EXCEPT !.alive = FALSE]
      ELSE moved

\* ------------------------------------------------------------------------
\* MenuItem and Menu (menu/menu_component.py).  An item is [enabled,
\* selected]; selected_index counts from 0 as in the source, items[i + 1] is
\* the item of index i.  A mouse position is the set of the indices of the
\* items whose rect contains the point.  activated_index and navigated are
\* observations: the index of the item whose activate() the latest event has
\* called (NONE if none) and whether the latest event has moved the
\* selection (the navigate sound).
\* ------------------------------------------------------------------------
MenuItem(enabled) == [enabled |-> enabled, selected |-> FALSE]

\* MenuItem.select
item_select(item) ==
  IF item.enabled /\ ~item.selected THEN [item EXCEPT !.selected = TRUE]
  ELSE item

\* MenuItem.deselect
item_deselect(item) == [item EXCEPT !.selected = FALSE]

\* Menu.__init__
NewMenu ==
  [items |-> <<>>, selected_index |-> 0, activated_index |-> NONE,
   navigated |-> FALSE]

\* Menu.add_item
add_item(mn, enabled) ==
  LET item == MenuItem(enabled)
  IN  [mn EXCEPT !.items =
         IF Len(mn.items) = 0 /\ item.enabled
         THEN <<item_select(item)>> ELSE Append(mn.items, item)]

\* the menu built by add_item for each flag of enabled, in order
RECURSIVE BuildMenu(_, _)
BuildMenu(mn, enabled) ==
  IF enabled = <<>> THEN mn
  ELSE BuildMenu(add_item(mn, Head(enabled)), Tail(enabled))

\* variant of _select_item_at_index that does not deselect the current item
select_item_at_index_keeping(mn, index) ==
  IF mn.items = <<>> \/ ~(0 <= index /\ index < Len(mn.items))
       \/ ~mn.items[index + 1].enabled
  THEN [menu |-> mn, changed |-> FALSE]
  ELSE [menu |-> [mn EXCEPT !.selected_index = index,
                            !.items[index + 1] = item_select(@)],
        changed |-> TRUE]

\* Menu._select_item_at_index: returns the menu and whether it has selected
select_item_at_index(mn, index) ==
  IF mn.items = <<>> \/ ~(0 <= index /\ index < Len(mn.items))
       \/ ~mn.items[index + 1].enabled
  THEN [menu |-> mn, changed |-> FALSE]
  ELSE LET deselected ==
             IF 0 <= mn.selected_index /\ mn.selected_index < Len(mn.items)
             THEN [mn EXCEPT !.items[mn.selected_index + 1] = item_deselect(@)]
             ELSE mn
       IN  [menu |-> [deselected EXCEPT !.selected_index = index,
                                        !.items[index + 1] = item_select(@)],
            changed |-> TRUE]

\* the while loop of _select_next (step 1) and _select_previous (step -1),
\* at position index of the walk that began at start_index
RECURSIVE select_walk(_, _, _, _)
select_walk(mn, index, start_index, step) ==
  IF mn.items[index + 1].enabled THEN select_item_at_index(mn, index)
  ELSE LET next == (index + step) % Len(mn.items)
       IN  IF next = start_index THEN [menu |-> mn, changed |-> FALSE]
           ELSE select_walk(mn, next, start_index, step)

\* Menu._select_next
select_next(mn) ==
  IF mn.items = <<>> THEN [menu |-> mn, changed |-> FALSE]
  ELSE LET start_index == (mn.selected_index + 1) % Len(mn.items)
       IN  select_walk(mn, start_index, start_index, 1)

\* Menu._select_previous
select_previous(mn) ==
  IF mn.items = <<>> THEN [menu |-> mn, changed |-> FALSE]
  ELSE LET start_index == (mn.selected_index - 1) % Len(mn.items)
       IN  select_walk(mn, start_index, start_index, -1)

\* the first item, in the order of the list, that contains the point and is
\* enabled; NONE if there is none
FirstUnder(mn, pos) ==
  LET under == {i \in pos : i < Len(mn.items) /\ mn.items[i + 1].enabled}
  IN  IF under = {} THEN NONE
      ELSE CHOOSE i \in under : \A j \in under : i <= j

\* Menu._handle_mouse_move
handle_mouse_move(mn, pos) ==
  LET i == FirstUnder(mn, pos)
  IN  IF i # NONE /\ i # mn.selected_index
      THEN select_item_at_index(mn, i)
      ELSE [menu |-> mn, changed |-> FALSE]

\* Menu.handle_event of an active menu that has appeared, for the keys
\* K_UP, K_DOWN, K_RETURN (K_SPACE does the same), a mouse motion and a
\* left click at pos
menu_component_handle_event(mn, e, pos) ==
  LET seen == [mn EXCEPT !.activated_index = NONE, !.navigated = FALSE]
      moved(r) == [r.menu EXCEPT !.navigated = r.changed]
  IN  CASE e = "K_UP" -> moved(select_previous(seen))
        [] e = "K_DOWN" -> moved(select_next(seen))
        [] e = "K_RETURN" ->
             IF 0 <= seen.selected_index
                  /\ seen.selected_index < Len(seen.items)
             THEN [seen EXCEPT !.activated_index = seen.selected_index]
             ELSE seen
        [] e = "MOUSEMOTION" -> moved(handle_mouse_move(seen, pos))
        [] e = "MOUSEBUTTONDOWN" ->
             LET i == FirstUnder(seen, pos)
             IN  IF i = NONE THEN seen
                 ELSE IF seen.items[i + 1].selected
                 THEN [seen EXCEPT !.activated_index = i]
                 ELSE [select_item_at_index(seen, i).menu
                         EXCEPT !.navigated = TRUE]
        [] OTHER -> seen

\* ------------------------------------------------------------------------
\* Initial state: the state after Game.__init__, with empty particle systems
\* ------------------------------------------------------------------------
\* with the default settings (settings/settings_manager.py)
Init ==
  /\ particles = <<>>
  /\ nav_particles = <<>>
  /\ next_id = 1
  /\ last_dt = 0
  /\ selection = NoSelection
  /\ asteroid = NoAsteroid
  /\ menu = NewMenu
  /\ difficulty = "Normal Space"
  /\ current_state = STATE_MENU
  /\ music = "menu"
  /\ menu_state = NewMenuState
  /\ countdown_state = NewCountdownState
  /\ game_state \in {NewGameState(i, p) : i \in SpawnIntervals(difficulty),
                                           p \in PowerupSpawnIntervals}
  /\ game_over_state = NewGameOverState
  /\ game_over_elapsed = 0
  /\ countdown_elapsed = 0

\* the same with any of the five tiers in the settings file
InitAnyDifficulty ==
  /\ particles = <<>>
  /\ nav_particles = <<>>
  /\ next_id = 1
  /\ last_dt = 0
  /\ selection = NoSelection
  /\ asteroid = NoAsteroid
  /\ menu = NewMenu
  /\ difficulty \in Tiers
  /\ current_state = STATE_MENU
  /\ music = "menu"
  /\ menu_state = NewMenuState
  /\ countdown_state = NewCountdownState
  /\ game_state \in {NewGameState(i, p) : i \in SpawnIntervals(difficulty),
                                           p \in PowerupSpawnIntervals}
  /\ game_over_state = NewGameOverState
  /\ game_over_elapsed = 0
  /\ countdown_elapsed = 0

\* the same with a tier name in the settings that is none of the five
InitUnknownDifficulty ==
  /\ particles = <<>>
  /\ nav_particles = <<>>
  /\ next_id = 1
  /\ last_dt = 0
  /\ selection = NoSelection
  /\ asteroid = NoAsteroid
  /\ menu = NewMenu
  /\ difficulty = UnknownTier
  /\ current_state = STATE_MENU
  /\ music = "menu"
  /\ menu_state = NewMenuState
  /\ countdown_state = NewCountdownState
  /\ game_state \in {NewGameState(i, p) : i \in SpawnIntervals(difficulty),
                                           p \in PowerupSpawnIntervals}
  /\ game_over_state = NewGameOverState
  /\ game_over_elapsed = 0
  /\ countdown_elapsed = 0

\* ------------------------------------------------------------------------
\* Operations of the particle system
\* ------------------------------------------------------------------------
AddParticle ==
  \E l \in Lifetimes :
    /\ next_id <= MaxIds
    /\ particles' = add_particle(particles, Particle(next_id, l))
    /\ nav_particles' = nav_add_particle(nav_particles, Particle(next_id, l))
    /\ next_id' = next_id + 1
    /\ last_dt' = 0
    /\ UNCHANGED <<selection, asteroid, menu, gvars>>

EmitParticles ==
  \E n \in 0..MaxEmit : \E ls \in [1..n -> Lifetimes] :
    /\ next_id + n <= MaxIds + 1
    /\ particles' = emit_particles(particles, next_id, ls)
    /\ nav_particles' = nav_emit_particles(nav_particles, next_id, ls)
    /\ next_id' = next_id + n
    /\ last_dt' = 0
    /\ UNCHANGED <<selection, asteroid, menu, gvars>>

UpdateParticles ==
  \E dt \in DtValues :
    /\ particles' = particles_update(particles, dt)
    /\ nav_particles' = particles_update(nav_particles, dt)
    /\ last_dt' = dt
    /\ UNCHANGED <<next_id, selection, asteroid, menu, gvars>>

ParticleNext == AddParticle \/ EmitParticles \/ UpdateParticles

SpecParticles == Init /\ [][ParticleNext]_vars

\* ------------------------------------------------------------------------
\* The weighted selections, called directly on tables of up to MaxOptions
\* weights in 0..MaxWeight
\* ------------------------------------------------------------------------
WeightMaps ==
  UNION {[1..n -> 0..MaxWeight] : n \in 0..MaxOptions}

\* the state after construction, with the dictionary of the selection
InitSelection ==
  /\ particles = <<>>
  /\ nav_particles = <<>>
  /\ next_id = 1
  /\ last_dt = 0
  /\ selection \in {Pending(weights) : weights \in WeightMaps}
  /\ asteroid = NoAsteroid
  /\ menu = NewMenu
  /\ difficulty = "Normal Space"
  /\ current_state = STATE_MENU
  /\ music = "menu"
  /\ menu_state = NewMenuState
  /\ countdown_state = NewCountdownState
  /\ game_state \in {NewGameState(i, p) : i \in SpawnIntervals(difficulty),
                                           p \in PowerupSpawnIntervals}
  /\ game_over_state = NewGameOverState
  /\ game_over_elapsed = 0
  /\ countdown_elapsed = 0

WeightedRandomChoice ==
  \E rand_val \in 0..Sum(selection.weights) :
    /\ selection.fn = "none"
    /\ LET weights == selection.weights IN selection' = [fn |-> "weighted_random_choice", weights |-> weights,
                     draw |-> rand_val,
                     result |-> weighted_random_choice(weights, rand_val),
                     raised |-> FALSE]
    /\ UNCHANGED <<particles, nav_particles, next_id, last_dt, asteroid, menu,
                       gvars>>

ChooseAsteroidType ==
  \E k \in {1} \cup (1..Sum(selection.weights)) :
      LET weights == selection.weights
          ret == choose_asteroid_type(weights, k)
      IN  /\ selection.fn = "none"
          /\ selection' = [fn |-> "choose_asteroid_type",
                           weights |-> weights, draw |-> k,
                           result |-> IF ret.raised THEN NONE
                                      ELSE ret.value + 1,
                           raised |-> ret.raised]
          /\ UNCHANGED <<particles, nav_particles, next_id, last_dt, asteroid, menu,
                       gvars>>

SelectionNext == WeightedRandomChoice \/ ChooseAsteroidType

SpecSelection == InitSelection /\ [][SelectionNext]_vars

\* ------------------------------------------------------------------------
\* One Menu, built with up to MaxItems items, and the events it handles
\* ------------------------------------------------------------------------
EnabledFlags ==
  UNION {[1..n -> BOOLEAN] : n \in 1..MaxItems}

InitMenu ==
  /\ particles = <<>>
  /\ nav_particles = <<>>
  /\ next_id = 1
  /\ last_dt = 0
  /\ selection = NoSelection
  /\ asteroid = NoAsteroid
  /\ menu \in {BuildMenu(NewMenu, enabled) : enabled \in EnabledFlags}
  /\ difficulty = "Normal Space"
  /\ current_state = STATE_MENU
  /\ music = "menu"
  /\ menu_state = NewMenuState
  /\ countdown_state = NewCountdownState
  /\ game_state \in {NewGameState(i, p) : i \in SpawnIntervals(difficulty),
                                           p \in PowerupSpawnIntervals}
  /\ game_over_state = NewGameOverState
  /\ game_over_elapsed = 0
  /\ countdown_elapsed = 0

MenuHandleEventWith(e, pos) ==
  /\ menu' = menu_component_handle_event(menu, e, pos)
  /\ UNCHANGED <<particles, nav_particles, next_id, last_dt, selection,
                 asteroid, gvars>>

MenuKey ==
  \E e \in {"K_UP", "K_DOWN", "K_RETURN"} : MenuHandleEventWith(e, {})

MenuMouse ==
  \E e \in {"MOUSEMOTION", "MOUSEBUTTONDOWN"} :
    \E pos \in SUBSET (0..(Len(menu.items) - 1)) : MenuHandleEventWith(e, pos)

MenuNext == MenuKey \/ MenuMouse

SpecMenu == InitMenu /\ [][MenuNext]_vars

\* ------------------------------------------------------------------------
\* The motion of one asteroid, from its construction to the update that
\* kills it (a killed sprite is in no group and is updated no more)
\* ------------------------------------------------------------------------
InitMotion ==
  /\ particles = <<>>
  /\ nav_particles = <<>>
  /\ next_id = 1
  /\ last_dt = 0
  /\ selection = NoSelection
  /\ asteroid \in NewAsteroids(MaxWidth, MaxHeight)
  /\ menu = NewMenu
  /\ difficulty = "Normal Space"
  /\ current_state = STATE_MENU
  /\ music = "menu"
  /\ menu_state = NewMenuState
  /\ countdown_state = NewCountdownState
  /\ game_state \in {NewGameState(i, p) : i \in SpawnIntervals(difficulty),
                                           p \in PowerupSpawnIntervals}
  /\ game_over_state = NewGameOverState
  /\ game_over_elapsed = 0
  /\ countdown_elapsed = 0

AsteroidUpdate ==
  \E dt \in DtValues :
    /\ asteroid.alive
    /\ asteroid' = asteroid_update(asteroid, dt)
    /\ UNCHANGED <<particles, nav_particles, next_id, last_dt, selection,
                   menu, gvars>>

MotionNext == AsteroidUpdate

SpecMotion == InitMotion /\ [][MotionNext]_vars

\* ------------------------------------------------------------------------
\* Operations of the Player, called directly
\* ------------------------------------------------------------------------
Amounts == {0, 5, 10, 80, 120}

TakeDamage(amount) ==
  /\ game_state' = [game_state EXCEPT
                      !.player = take_damage(@, amount).player]
  /\ UNCHANGED <<pvars, difficulty, current_state, music, menu_state,
                 countdown_state, game_over_state, game_over_elapsed,
                 countdown_elapsed>>

PlayerUpdate(dt) ==
  /\ game_state' = [game_state EXCEPT !.player = player_update(@, dt)]
  /\ UNCHANGED <<pvars, difficulty, current_state, music, menu_state,
                 countdown_state, game_over_state, game_over_elapsed,
                 countdown_elapsed>>

PlayerTakeDamage == \E amount \in Amounts : TakeDamage(amount)

PlayerUpdates == \E dt \in DtValues : PlayerUpdate(dt)

PlayerNext == PlayerTakeDamage \/ PlayerUpdates

SpecPlayer == Init /\ [][PlayerNext]_vars

\* ------------------------------------------------------------------------
\* The player's hits and updates together with the spawning and the
\* collection of power-ups, called directly
\* ------------------------------------------------------------------------
\* check_powerup_collisions for the power-ups that overlap the player
\* (pfate "collected"): spritecollide removes them from the group, then
\* each is activated
collect_powerups(gs, pfate) ==
  check_powerup_collisions(
    [gs EXCEPT !.powerups = WithFate(gs.powerups, pfate, {"stay"}, 1),
               !.booms_collected = 0],
    WithFate(gs.powerups, pfate, {"collected"}, 1))

SpawnPowerUp ==
  /\ Len(game_state.powerups) < MAX_ACTIVE_POWERUPS
  /\ \E powerup \in SpawnedPowerUps :
       game_state' = [game_state EXCEPT !.powerups = Append(@, powerup)]
  /\ UNCHANGED <<pvars, difficulty, current_state, music, menu_state,
                 countdown_state, game_over_state, game_over_elapsed,
                 countdown_elapsed>>

CheckPowerupCollisions ==
  /\ \E pfate \in [DOMAIN game_state.powerups -> {"stay", "collected"}] :
       game_state' = collect_powerups(game_state, pfate)
  /\ UNCHANGED <<pvars, difficulty, current_state, music, menu_state,
                 countdown_state, game_over_state, game_over_elapsed,
                 countdown_elapsed>>

CollectNext ==
  PlayerTakeDamage \/ PlayerUpdates \/ SpawnPowerUp \/ CheckPowerupCollisions

SpecCollect == Init /\ [][CollectNext]_vars

\* ------------------------------------------------------------------------
\* Operations of the GameState, called directly: the updates of one Playing
\* episode up to the update that asks for STATE_GAME_OVER, and reset
\* ------------------------------------------------------------------------
\* the update consumes the two spawn draws only when the spawn timer fires,
\* and no input at all while the fade-out runs
SpawnDue(gs, dt) ==
  gs.asteroid_spawn_timer + Dt(dt) >= gs.next_spawn_interval

PowerupDue(gs, dt) ==
  gs.powerup_spawn_timer + Dt(dt) >= gs.next_powerup_spawn_interval

NoInputs(interval, pinterval) ==
  [fate |-> <<>>, reach |-> <<>>, interval |-> interval,
   spawned |-> Asteroid(0, "small"), pfate |-> <<>>,
   pinterval |-> pinterval, powerup |-> PowerUp(POWERUP_BOOM_ID)]

\* what a frame can bring to the sprites of the episode; an asteroid the
\* boom destroys has no other fate in the frame
LiveInputs(dt) ==
       {in \in
          [fate : Fates(game_state),
           reach : Reaches(game_state),
           interval : IF SpawnDue(game_state, dt)
                      THEN SpawnIntervals(difficulty)
                      ELSE {game_state.next_spawn_interval},
           spawned : IF SpawnDue(game_state, dt)
                     THEN AsteroidDraws[difficulty]
                     ELSE {Asteroid(0, "small")},
           pfate : PowerUpFates(game_state),
           pinterval : IF PowerupDue(game_state, dt)
                       THEN PowerupSpawnIntervals
                       ELSE {game_state.next_powerup_spawn_interval},
           powerup : IF PowerupDue(game_state, dt)
                     THEN SpawnedPowerUps
                     ELSE {PowerUp(POWERUP_BOOM_ID)}] :
          \A i \in DOMAIN in.reach :
            (game_state.boom_effect_active /\ InBlast(in.reach[i]))
              => in.fate[i] = "stay"}

PlayingInputs(dt) ==
  IF game_state.transition_out
  THEN {NoInputs(game_state.next_spawn_interval,
                 game_state.next_powerup_spawn_interval)}
  ELSE LiveInputs(dt)

\* the part of the score that the time survived has earned
TimeScore(gs) ==
  gs.score - BOOM_BONUS * TicksPerSecond * gs.boom_destroyed

GameUpdateWith(dt, in) ==
  /\ game_state.transition_timer < Dur(FADE_DURATION)
  /\ \E r \in {game_update(game_state, dt, in)} :
         /\ TimeScore(r.state) <= MaxScore
         /\ r.state.boom_destroyed <= MaxDestroyed
         /\ Len(r.state.asteroids) <= MaxAsteroids
         /\ game_state' = r.state
  /\ UNCHANGED <<pvars, difficulty, current_state, music, menu_state,
                 countdown_state, game_over_state, game_over_elapsed,
                 countdown_elapsed>>

GameUpdate ==
  \E dt \in DtValues : \E in \in PlayingInputs(dt) : GameUpdateWith(dt, in)

GameReset ==
  /\ \E interval \in SpawnIntervals(difficulty) :
       \E pinterval \in PowerupSpawnIntervals :
         game_state' = reset(game_state, interval, pinterval)
  /\ UNCHANGED <<pvars, difficulty, current_state, music, menu_state,
                 countdown_state, game_over_state, game_over_elapsed,
                 countdown_elapsed>>

PlayingNext == GameUpdate \/ GameReset

SpecPlaying == InitAnyDifficulty /\ [][PlayingNext]_vars

\* the Playing episodes under the unknown tier name
SpecUnknownDifficulty == InitUnknownDifficulty /\ [][PlayingNext]_vars

\* ------------------------------------------------------------------------
\* The boom and its sounds in frames as short as Game.run makes them (it
\* caps dt at 0.1 s): the part of GameState.update that schedules and
\* processes the sounds, the pickup of a boom, a lethal collision, the
\* updates of the fade-out and reset, called directly.  Time is counted in
\* the unit of the timers, 1/(10 * TicksPerSecond) s; a boom is picked up
\* when the cues of the boom before it are gone.
\* ------------------------------------------------------------------------
FrameUnits == 1..TicksPerSecond

SoundsCollect ==
  /\ ~game_state.transition_out
  /\ ~game_state.boom_effect_active
  /\ game_state.scheduled_sounds = <<>>
  /\ game_state' = check_powerup_collisions(
                      [game_state EXCEPT !.booms_collected = 0],
                      <<PowerUp(POWERUP_BOOM_ID)>>)
  /\ UNCHANGED <<pvars, difficulty, current_state, music, menu_state,
                 countdown_state, game_over_state, game_over_elapsed,
                 countdown_elapsed>>

SoundsUpdateWith(elapsed, destroyed) ==
  /\ ~game_state.transition_out
  /\ game_state' = sound_step(game_state, destroyed, elapsed)
  /\ UNCHANGED <<pvars, difficulty, current_state, music, menu_state,
                 countdown_state, game_over_state, game_over_elapsed,
                 countdown_elapsed>>

SoundsUpdate ==
  \E elapsed \in FrameUnits : \E destroyed \in 0..MaxBlast :
    SoundsUpdateWith(elapsed, destroyed)

\* a collision with an asteroid whose damage takes all the health
SoundsLethalHit ==
  /\ ~game_state.transition_out
  /\ game_state' = collide(game_state, <<Asteroid(6, "medium")>>)
  /\ UNCHANGED <<pvars, difficulty, current_state, music, menu_state,
                 countdown_state, game_over_state, game_over_elapsed,
                 countdown_elapsed>>

SoundsFadeWith(elapsed) ==
  /\ game_state.transition_out
  /\ game_state.transition_timer < Dur(FADE_DURATION)
  /\ game_state' = [game_state EXCEPT !.transition_timer = @ + elapsed]
  /\ UNCHANGED <<pvars, difficulty, current_state, music, menu_state,
                 countdown_state, game_over_state, game_over_elapsed,
                 countdown_elapsed>>

SoundsFade == \E elapsed \in FrameUnits : SoundsFadeWith(elapsed)

SoundsNext ==
  \/ SoundsCollect
  \/ SoundsUpdate
  \/ SoundsLethalHit
  \/ SoundsFade
  \/ GameReset

SpecSounds == Init /\ [][SoundsNext]_vars

\* ------------------------------------------------------------------------
\* The same operations over a longer episode, in which the power-up timer
\* fires several times; the player keeps clear of every asteroid and the
\* asteroid draws are the smallest asteroid and the shortest interval
\* ------------------------------------------------------------------------
PowerupInputs(dt) ==
  {in \in PlayingInputs(dt) :
     /\ \A i \in DOMAIN in.fate : in.fate[i] # "hit"
     /\ in.spawned = Asteroid(0, "small")
     /\ \A i \in SpawnIntervals(difficulty) : in.interval <= i}

PowerupUpdateWith(dt, in) ==
  /\ \E r \in {game_update(game_state, dt, in)} :
         /\ TimeScore(r.state) <= MaxPowerupScore
         /\ r.state.boom_destroyed <= MaxDestroyed
         /\ Len(r.state.asteroids) <= MaxAsteroids
         /\ game_state' = r.state
  /\ UNCHANGED <<pvars, difficulty, current_state, music, menu_state,
                 countdown_state, game_over_state, game_over_elapsed,
                 countdown_elapsed>>

PowerupUpdate ==
  \E dt \in DtValues : \E in \in PowerupInputs(dt) : PowerupUpdateWith(dt, in)

PowerupNext == PowerupUpdate \/ GameReset

SpecPowerups == Init /\ [][PowerupNext]_vars

\* ------------------------------------------------------------------------
\* The main loop: one action per handled event and per frame update
\* ------------------------------------------------------------------------
HandleEventWith(e, result, interval, pinterval) ==
  /\ Becomes(run_event(World, e, result, interval, pinterval))
  /\ UNCHANGED <<pvars, difficulty>>

HandleEvent ==
  \E e \in Events : \E interval \in SpawnIntervals(difficulty) :
    \E pinterval \in PowerupSpawnIntervals :
      \E result \in (IF current_state \in {STATE_MENU, STATE_SETTINGS}
                        /\ e # "K_F11"
                     THEN MenuResults(menu_state.active_menu, e)
                     ELSE {NONE}) :
        HandleEventWith(e, result, interval, pinterval)

FrameWith(dt, in) ==
  /\ Becomes(run_update(World, dt, in))
  /\ UNCHANGED <<pvars, difficulty>>

FrameMenu ==
  /\ current_state \in {STATE_MENU, STATE_SETTINGS}
  /\ \E dt \in DtValues : \E interval \in SpawnIntervals(difficulty) :
       \E pinterval \in PowerupSpawnIntervals :
         FrameWith(dt, NoInputs(interval, pinterval))

FrameCountdown ==
  /\ current_state = STATE_COUNTDOWN
  /\ \E dt \in DtValues : \E interval \in SpawnIntervals(difficulty) :
       \E pinterval \in PowerupSpawnIntervals :
         FrameWith(dt, NoInputs(interval, pinterval))

FramePlayingWith(dt, in) ==
  /\ current_state = STATE_PLAYING
  /\ \E w \in {run_update(World, dt, in)} :
         /\ TimeScore(w.game_state) <= MaxScore
         /\ w.game_state.boom_destroyed <= MaxDestroyed
         /\ Len(w.game_state.asteroids) <= MaxLoopAsteroids
         /\ Len(w.game_state.powerups) <= MaxLoopPowerups
         /\ Becomes(w)
  /\ UNCHANGED <<pvars, difficulty>>

FramePlaying ==
  \E dt \in DtValues : \E in \in PlayingInputs(dt) : FramePlayingWith(dt, in)

FrameGameOver ==
  /\ current_state = STATE_GAME_OVER
  /\ \E dt \in DtValues : \E interval \in SpawnIntervals(difficulty) :
       \E pinterval \in PowerupSpawnIntervals :
         FrameWith(dt, NoInputs(interval, pinterval))

Next ==
  \/ HandleEvent
  \/ FrameMenu
  \/ FrameCountdown
  \/ FramePlaying
  \/ FrameGameOver

Spec == Init /\ [][Next]_vars

\* Game.change_state called with any target, between the handled events and
\* the Countdown and GameOver frames
ChangeStateCall(new_state, interval, pinterval) ==
  /\ Becomes(change_state(World, new_state, interval, pinterval))
  /\ UNCHANGED <<pvars, difficulty>>

ChangeState ==
  \E new_state \in States : \E interval \in SpawnIntervals(difficulty) :
    \E pinterval \in PowerupSpawnIntervals :
      ChangeStateCall(new_state, interval, pinterval)

NextChangeState ==
  \/ ChangeState
  \/ HandleEvent
  \/ FrameCountdown
  \/ FrameGameOver

SpecChangeState == Init /\ [][NextChangeState]_vars

\* ------------------------------------------------------------------------
\* Properties of the particle system
\* ------------------------------------------------------------------------
Ids(ps) == {ps[i].id : i \in DOMAIN ps}

\* C1: after any sequence of add_particle, emit_particles and update calls
\* the number of stored particles never exceeds max_particles.
C1_ParticleBound ==
  /\ Len(particles) <= MaxParticles
  /\ Len(nav_particles) <= MaxParticles

\* a particle was offered to a full system and the system is still full
C1_Witness ==
  /\ Len(particles) = MaxParticles
  /\ Len(nav_particles) = MaxParticles
  /\ next_id > MaxParticles + 1
  /\ last_dt = 0

\* C2: every add hands over a new particle; afterwards the newest particle
\* is stored, and if the system was full its head (the oldest) is gone.
\* Stated for effects/particles.py.
C2_NewestKept ==
  [][next_id' > next_id =>
       /\ (next_id' - 1) \in Ids(particles')
       /\ (Len(particles) >= MaxParticles =>
             Head(particles).id \notin Ids(particles'))]_pvars

\* the same statement for the ParticleSystem of asteroid_navigator.py
NavNewestKept ==
  [][next_id' > next_id =>
       /\ (next_id' - 1) \in Ids(nav_particles')
       /\ (Len(nav_particles) >= MaxParticles =>
             Head(nav_particles).id \notin Ids(nav_particles'))]_pvars

\* what a step does to the particle p of the list ps: it is kept, aged by
\* the step's dt, exactly when its accumulated age stays below its lifetime
AgedOrRemoved(p, after, dt) ==
  IF p.age + dt < p.lifetime
  THEN \E j \in DOMAIN after :
         after[j] = [p EXCEPT !.age = p.age + dt]
  ELSE p.id \notin Ids(after)

\* C3: a particle stays while its accumulated age is below its lifetime, is
\* removed by the first update at which the age reaches the lifetime, and
\* an identity that has left the list never comes back.
C3_ParticleLifetime ==
  [][/\ \A i \in DOMAIN particles :
          AgedOrRemoved(particles[i], particles', last_dt')
     /\ last_dt' > 0 =>
          \A i \in DOMAIN nav_particles :
            AgedOrRemoved(nav_particles[i], nav_particles', last_dt')
     /\ \A id \in 1..(next_id - 1) :
          /\ id \notin Ids(particles) => id \notin Ids(particles')
          /\ id \notin Ids(nav_particles) => id \notin Ids(nav_particles')]_pvars

\* the only particle ever created has been removed by an update
C3_Witness ==
  /\ next_id = 2
  /\ particles = <<>>
  /\ nav_particles = <<>>
  /\ last_dt > 0

\* ------------------------------------------------------------------------
\* Properties of the Player and of a Playing episode
\* ------------------------------------------------------------------------
\* C4: the player's health lies in [0, PLAYER_MAX_HEALTH] in every state of
\* a Playing episode.
C4_HealthRange == game_state.player.health \in 0..PLAYER_MAX_HEALTH

\* a hit whose damage exceeds the maximum health has just been applied
C4_Witness ==
  /\ game_state.player.health = 0
  /\ game_state.player.since_hit = 0
  /\ game_state.asteroid_hits # <<>>
  /\ game_state.asteroid_hits[1].damage > PLAYER_MAX_HEALTH

\* C5: a take_damage made before Player.update has accumulated the
\* invulnerability duration since the last applied damage applies nothing;
\* one made after that duration has accumulated applies its amount, floored
\* at 0.
C5_InvulnerabilityGate ==
  \A amount \in Amounts :
    LET p == game_state.player
        r == take_damage(p, amount)
    IN  IF p.since_hit < Dur(invulnerable_duration)
        THEN ~r.applied /\ r.player = p
        ELSE r.applied /\ r.player.health = Max(0, p.health - amount)

\* damages of 5 and 80 have both been applied, the later one just now
C5_Witness ==
  /\ game_state.player.health = PLAYER_MAX_HEALTH - 85
  /\ game_state.player.since_hit = 0
  /\ game_state.player.invulnerable

\* the hit list of an update with inputs in
HitList(gs, in) == WithFate(gs.asteroids, in.fate, {"hit"}, 1)

\* C6: an update with a non-empty hit list whose player is vulnerable when
\* the collisions are tested leaves health lower by the damage of the first
\* asteroid of the hit list only (floored at 0), however many asteroids hit.
C6_AtMostOneDamage ==
  \A dt \in DtValues : \A in \in PlayingInputs(dt) :
    ( /\ ~game_state.transition_out
      /\ HitList(game_state, in) # <<>>
      /\ ~player_update(game_state.player, dt).invulnerable )
    => game_update(game_state, dt, in).state.player.health =
         Max(0, game_state.player.health
                  - HitList(game_state, in)[1].damage)

\* two asteroids of different damage hit in the latest update and only the
\* first one's damage was taken from full health
C6_Witness ==
  /\ Len(game_state.asteroid_hits) >= 2
  /\ game_state.asteroid_hits[1].damage # game_state.asteroid_hits[2].damage
  /\ game_state.player.since_hit = 0
  /\ game_state.player.health =
       PLAYER_MAX_HEALTH - game_state.asteroid_hits[1].damage

\* C11: an update made while the fade-out to GameOver runs leaves score,
\* health, the asteroids, the power-ups and both spawn timers as they were,
\* whatever the frame brings (overlaps, pickups, due timers); of the modelled
\* fields only the transition timer advances, by the frame's dt.
C11_FadeFreezesGame ==
  game_state.transition_out =>
    \A dt \in DtValues : \A in \in LiveInputs(dt) :
      LET after == game_update(game_state, dt, in).state
      IN  /\ after.score = game_state.score
          /\ after.player = game_state.player
          /\ after.asteroids = game_state.asteroids
          /\ after.powerups = game_state.powerups
          /\ after.asteroid_spawn_timer = game_state.asteroid_spawn_timer
          /\ after.powerup_spawn_timer = game_state.powerup_spawn_timer
          /\ after = [game_state EXCEPT !.transition_timer = @ + Dt(dt)]

\* a fade-out update has run over an episode that still has an asteroid
C11_Witness ==
  /\ game_state.transition_out
  /\ game_state.transition_timer > 0
  /\ game_state.player.health = 0
  /\ game_state.asteroids # <<>>
  /\ game_state.score > 0

\* the power-ups of gs that are still alive after the sprite updates of a
\* frame with inputs in
LivePowerUps(gs, in) == WithFate(gs.powerups, in.pfate, {"stay", "collected"}, 1)

\* C14: there are never more than MAX_ACTIVE_POWERUPS power-ups, and in
\* every update the firing power-up timer spawns a power-up exactly when
\* fewer than MAX_ACTIVE_POWERUPS are alive at that point of the frame.
C14_PowerUpCap ==
  /\ Len(game_state.powerups) <= MAX_ACTIVE_POWERUPS
  /\ ~game_state.transition_out =>
       \A dt \in DtValues : \A in \in PowerupInputs(dt) :
         LET after == game_update(game_state, dt, in).state
             live == Len(LivePowerUps(game_state, in))
         IN  /\ Len(after.powerups) <= MAX_ACTIVE_POWERUPS
             /\ after.powerup_log = "spawned" => live < MAX_ACTIVE_POWERUPS
             /\ after.powerup_log = "skipped" =>
                   /\ live >= MAX_ACTIVE_POWERUPS
                   /\ Len(after.powerups) <= live
             /\ PowerupDue(game_state, dt) <=> after.powerup_log # "none"

\* the power-up timer has just fired with the cap reached: nothing spawned
C14_Witness ==
  /\ Len(game_state.powerups) = MAX_ACTIVE_POWERUPS
  /\ game_state.powerup_log = "skipped"
  /\ game_state.powerup_spawn_timer = 0

\* C15: the update that resolves a collected boom destroys exactly the
\* asteroids whose distance to the boom centre is less than the effect
\* radius plus their own radius, keeps every other asteroid that does not
\* leave the screen in that frame, and adds BOOM_BONUS points per destroyed
\* asteroid to the score (besides the frame's survival score).
C15_BoomResolution ==
  (game_state.boom_effect_active /\ ~game_state.transition_out) =>
    \A dt \in DtValues : \A in \in PowerupInputs(dt) :
      LET after == game_update(game_state, dt, in).state
          n == Len(game_state.asteroids)
          inside == {i \in 1..n : in.reach[i] < explosion_radius}
          outcome == [i \in 1..n |->
                        IF i \in inside THEN "destroyed" ELSE in.fate[i]]
          remaining == WithFate(game_state.asteroids, outcome, {"stay"}, 1)
      IN  /\ after.boom_destroyed
               = game_state.boom_destroyed + Cardinality(inside)
          /\ after.score = game_state.score
               + BOOM_BONUS * TicksPerSecond * Cardinality(inside) + dt * 10
          /\ Len(after.asteroids) >= Len(remaining)
          /\ SubSeq(after.asteroids, 1, Len(remaining)) = remaining
          /\ Len(after.asteroids) <= Len(remaining) + 1

\* a boom has destroyed an asteroid and asteroids are alive
C15_Witness ==
  /\ game_state.boom_destroyed >= 1
  /\ game_state.score >= BOOM_BONUS * TicksPerSecond
  /\ ~game_state.boom_effect_active
  /\ Len(game_state.asteroids) >= 1

\* C16: at every tier, the list the asteroid type is drawn from holds no
\* type whose weight in the tier's table is 0, and no asteroid of such a
\* type is alive during an episode played at the tier.
C16_NoZeroWeightType ==
  /\ \A k \in DOMAIN WeightedTypesOf[difficulty] :
       Variety(difficulty)[WeightedTypesOf[difficulty][k] + 1] > 0
  /\ \A i \in DOMAIN game_state.asteroids :
       Variety(difficulty)[game_state.asteroids[i].asteroid_type + 1] > 0

\* the easiest tier, whose types 4, 5 and 6 have weight 0, with an asteroid
\* of its last type of positive weight alive
C16_Witness ==
  /\ difficulty = "Empty Space"
  /\ \E t \in 4..6 : Variety(difficulty)[t + 1] = 0
  /\ \E i \in DOMAIN game_state.asteroids :
       game_state.asteroids[i].asteroid_type = 3

\* ------------------------------------------------------------------------
\* Properties of the game-flow controller
\* ------------------------------------------------------------------------
Edges ==
  {<<STATE_MENU, STATE_COUNTDOWN>>, <<STATE_COUNTDOWN, STATE_PLAYING>>,
   <<STATE_PLAYING, STATE_GAME_OVER>>, <<STATE_GAME_OVER, STATE_MENU>>,
   <<STATE_MENU, STATE_SETTINGS>>, <<STATE_SETTINGS, STATE_MENU>>}

\* C7: every change of current_state in a run of the main loop follows one
\* of the fixed edges; from GameOver only Menu is reached.
C7_FixedEdges ==
  [][current_state' # current_state =>
       <<current_state, current_state'>> \in Edges]_vars

\* an episode has been played to its end and GameOver accepts input
C7_Witness ==
  /\ current_state = STATE_GAME_OVER
  /\ game_over_state.allow_transition
  /\ game_over_state.final_score > 0

\* C8: change_state with a target that is not a successor of the current
\* state on the fixed edges changes nothing.
C8_IllegalTargetIsNoOp ==
  [][\A new_state \in States : \A interval \in SpawnIntervals(difficulty) :
       \A pinterval \in PowerupSpawnIntervals :
         ( /\ ChangeStateCall(new_state, interval, pinterval)
           /\ <<current_state, new_state>> \notin Edges )
         => UNCHANGED vars]_vars

\* C9: a key, mouse-button or joystick-button event handled in GameOver is
\* ignored while the GameOver updates have accumulated less than the
\* cool-down delay, and switches the controller to Menu afterwards.
C9_CoolDownThenMenu ==
  [][\A e \in KeyDown \cup {"MOUSEBUTTONDOWN", "JOYBUTTONDOWN"} :
       \A interval \in SpawnIntervals(difficulty) :
         \A pinterval \in PowerupSpawnIntervals :
           ( /\ current_state = STATE_GAME_OVER
             /\ HandleEventWith(e, NONE, interval, pinterval) )
           => IF game_over_elapsed < Dur(delay_threshold)
              THEN current_state' = STATE_GAME_OVER
              ELSE current_state' = STATE_MENU]_vars

\* C10: the death of the player starts the fade-out in Playing; while the
\* fade-out runs every step leaves the controller fading in Playing, each
\* frame adding its dt to the fade time, until the first update at which the
\* fade time reaches FADE_DURATION switches to GameOver; GameOver is entered
\* with health 0 only.
C10_FadeToGameOver ==
  [][/\ ( /\ current_state = STATE_PLAYING
          /\ current_state' = STATE_PLAYING
          /\ game_state.player.health > 0
          /\ game_state'.player.health = 0 )
        => game_state'.transition_out /\ game_state'.transition_timer = 0
     /\ (current_state = STATE_PLAYING /\ game_state.transition_out)
        => \/ /\ current_state' = STATE_PLAYING
              /\ game_state'.transition_out
              /\ game_state'.player.health = 0
              /\ game_state'.transition_timer < Dur(FADE_DURATION)
           \/ /\ current_state' = STATE_GAME_OVER
              /\ game_state.transition_timer < Dur(FADE_DURATION)
              /\ game_state'.transition_timer >= Dur(FADE_DURATION)
     /\ \A dt \in DtValues :
          ( /\ current_state = STATE_PLAYING
            /\ game_state.transition_out
            /\ FramePlayingWith(
                 dt, NoInputs(game_state.next_spawn_interval,
                              game_state.next_powerup_spawn_interval)) )
          => game_state'.transition_timer
               = game_state.transition_timer + Dt(dt)
     /\ (current_state # STATE_GAME_OVER /\ current_state' = STATE_GAME_OVER)
        => current_state = STATE_PLAYING /\ game_state'.player.health = 0]_vars

\* C12: from Countdown only Playing is reached; a handled SPACE key switches
\* to Playing at once and no other event switches; a frame does not switch
\* before the Countdown updates have accumulated COUNTDOWN_DURATION, and
\* switches at the latest when they have accumulated COUNTDOWN_DURATION and
\* the fade-out that follows it.
C12_CountdownToPlaying ==
  [][current_state = STATE_COUNTDOWN =>
       /\ current_state' \in {STATE_COUNTDOWN, STATE_PLAYING}
       /\ \A e \in Events : \A interval \in SpawnIntervals(difficulty) :
            \A pinterval \in PowerupSpawnIntervals :
              HandleEventWith(e, NONE, interval, pinterval)
              => IF e = "K_SPACE" THEN current_state' = STATE_PLAYING
                 ELSE current_state' = STATE_COUNTDOWN
       /\ \A dt \in DtValues : \A interval \in SpawnIntervals(difficulty) :
            \A pinterval \in PowerupSpawnIntervals :
              FrameWith(dt, NoInputs(interval, pinterval))
              => /\ countdown_elapsed + Dt(dt) < Dur(COUNTDOWN_DURATION)
                      => current_state' = STATE_COUNTDOWN
                 /\ countdown_elapsed + Dt(dt)
                        >= Dur(COUNTDOWN_DURATION) + Dur(FADE_DURATION)
                      => current_state' = STATE_PLAYING]_vars

\* the data of an episode that has not started yet
Fresh(gs) ==
  /\ gs.score = 0
  /\ gs.player.health = PLAYER_MAX_HEALTH
  /\ ~gs.player.invulnerable
  /\ gs.asteroids = <<>>
  /\ gs.powerups = <<>>
  /\ gs.asteroid_spawn_timer = 0
  /\ gs.powerup_spawn_timer = 0
  /\ ~gs.boom_effect_active
  /\ ~gs.transition_out

\* C13: whenever the controller enters Playing, for the first episode and
\* for each one after a GameOver, the data of the Playing state is fresh.
C13_FreshEpisode ==
  [][(current_state # STATE_PLAYING /\ current_state' = STATE_PLAYING)
       => Fresh(game_state')]_vars

\* Playing has just been entered at the end of a countdown that ran out
C13_Witness ==
  /\ current_state = STATE_PLAYING
  /\ Fresh(game_state)
  /\ countdown_state.timer >= Dur(COUNTDOWN_DURATION)
  /\ countdown_state.transition_timer >= Dur(FADE_DURATION)

\* ------------------------------------------------------------------------
\* Properties of the weighted selections
\* ------------------------------------------------------------------------
\* cumulative weight of the first i entries
Cumulative(weights, i) == Sum(SubSeq(weights, 1, i))

\* C17: for a dictionary with at least one key and a draw in
\* [0, sum of the weights], weighted_random_choice returns a key of the
\* dictionary, the first one in iteration order whose cumulative weight is
\* >= the draw.
C17_FirstKeyReachingDraw ==
  (selection.fn = "weighted_random_choice" /\ Len(selection.weights) > 0) =>
    /\ ~selection.raised
    /\ selection.result \in DOMAIN selection.weights
    /\ Cumulative(selection.weights, selection.result) >= selection.draw
    /\ \A j \in 1..(selection.result - 1) :
         Cumulative(selection.weights, j) < selection.draw

\* a draw that equals the cumulative weight of a key that is not the first
C17_Witness ==
  /\ selection.fn = "weighted_random_choice"
  /\ selection.result > 1
  /\ Cumulative(selection.weights, selection.result) = selection.draw
  /\ selection.result < Len(selection.weights)

\* the dictionary is empty or all its weights are 0
Degenerate(weights) == \A i \in DOMAIN weights : weights[i] = 0

C20_IgnoredHit ==
  game_state.player.invulnerable =>
    \A amount \in Amounts :
      LET r == take_damage(game_state.player, amount)
      IN  /\ ~r.applied
          /\ r.player.health = game_state.player.health
          /\ r.player.invulnerable
          /\ r.player.invulnerable_timer = game_state.player.invulnerable_timer
          /\ r.player.flash_timer = game_state.player.flash_timer
          /\ r.player.flash_visible = game_state.player.flash_visible

\* an invulnerable player part of whose window has elapsed, in the hidden
\* phase of the flashing
C20_Witness ==
  /\ game_state.player.invulnerable
  /\ game_state.player.invulnerable_timer > 0
  /\ game_state.player.invulnerable_timer < Dur(invulnerable_duration)
  /\ ~game_state.player.flash_visible
  /\ game_state.player.health < PLAYER_MAX_HEALTH

\* ------------------------------------------------------------------------
\* Properties of the boom's sounds
\* ------------------------------------------------------------------------
\* the cues a boom that destroys n asteroids schedules: min(n,
\* POWERUP_BOOM_CHAIN_EXPLOSIONS) cues with the delays 0, d, 2d
ChainCues(n) ==
  [i \in 1..Min(n, POWERUP_BOOM_CHAIN_EXPLOSIONS) |->
     [cue |-> i - 1, delay |-> (i - 1) * Dur(POWERUP_BOOM_CHAIN_DELAY)]]

\* the cues of sounds whose delay has (not) elapsed after `elapsed`
RECURSIVE DueCues(_, _)
DueCues(sounds, elapsed) ==
  IF sounds = <<>> THEN <<>>
  ELSE (IF Head(sounds).delay <= elapsed THEN <<Head(sounds).cue>> ELSE <<>>)
         \o DueCues(Tail(sounds), elapsed)

RECURSIVE WaitingCues(_, _)
WaitingCues(sounds, elapsed) ==
  IF sounds = <<>> THEN <<>>
  ELSE (IF Head(sounds).delay <= elapsed THEN <<>>
        ELSE <<[Head(sounds) EXCEPT !.delay = @ - elapsed]>>)
         \o WaitingCues(Tail(sounds), elapsed)

\* a step of an update of the living player: the update that resolves a
\* boom with n destroyed asteroids schedules ChainCues(n), and every update
\* plays the cues whose delay has elapsed, in the order of the chain,
\* removes them and keeps the others for the remaining delay
CuesWhileAlive ==
  \A elapsed \in FrameUnits :
    /\ \A n \in 0..MaxBlast :
         (game_state.boom_effect_active /\ SoundsUpdateWith(elapsed, n)) =>
           /\ game_state'.played_sounds = DueCues(ChainCues(n), elapsed)
           /\ game_state'.scheduled_sounds
                = WaitingCues(ChainCues(n), elapsed)
    /\ (~game_state.boom_effect_active /\ SoundsUpdateWith(elapsed, 0)) =>
         /\ game_state'.played_sounds
              = DueCues(game_state.scheduled_sounds, elapsed)
         /\ game_state'.scheduled_sounds
              = WaitingCues(game_state.scheduled_sounds, elapsed)

\* a step of an update of the fade-out: the same for the cues still
\* scheduled
CuesWhileFading ==
  \A elapsed \in FrameUnits :
    SoundsFadeWith(elapsed) =>
      game_state'.scheduled_sounds
        = WaitingCues(game_state.scheduled_sounds, elapsed)

SoundsWhileAlive == [][CuesWhileAlive]_vars

\* C21: the update that resolves a boom with n destroyed asteroids schedules
\* min(n, POWERUP_BOOM_CHAIN_EXPLOSIONS) cues with the delays 0, d, 2d; each
\* cue is played once its delay has elapsed in the accumulated dt of the
\* updates, those of the fade-out included, in the order of the chain, and
\* is then removed from the schedule.
C21_ChainedSounds == [][CuesWhileAlive /\ CuesWhileFading]_vars


\* ------------------------------------------------------------------------
\* Properties of the difficulty tables
\* ------------------------------------------------------------------------
\* C22: when the configured difficulty is none of the five tiers, the
\* spawn interval is the one of multiplier 1.0, the list the asteroid type
\* is drawn from and the allowed sizes of every type are those of
\* "Normal Space", and every asteroid alive has a type and a size of the
\* "Normal Space" tables.
C22_UnknownTierDefaults ==
  difficulty \notin Tiers =>
    /\ game_state.next_spawn_interval
         \in {(Dur(ASTEROID_SPAWN_RATE) * 8) \div 10,
              (Dur(ASTEROID_SPAWN_RATE) * 12) \div 10}
    /\ WeightedTypes(Variety(difficulty), 1) = WeightedTypesOf["Normal Space"]
    /\ \A t \in 0..6 :
         AllowedSizes(difficulty, t)
           = DIFFICULTY_SIZE_RESTRICTIONS["Normal Space"][t + 1]
    /\ \A i \in DOMAIN game_state.asteroids :
         LET a == game_state.asteroids[i]
             sizes == DIFFICULTY_SIZE_RESTRICTIONS["Normal Space"]
                        [a.asteroid_type + 1]
         IN  /\ DIFFICULTY_ASTEROID_VARIETY["Normal Space"]
                  [a.asteroid_type + 1] > 0
             /\ \E j \in DOMAIN sizes : sizes[j] = a.size_category

\* an episode under the unknown tier name in which the spawn timer has
\* fired and re-armed, and an asteroid of the last type is alive
C22_Witness ==
  /\ difficulty \notin Tiers
  /\ game_state.score > 0
  /\ \E i \in DOMAIN game_state.asteroids :
       game_state.asteroids[i].asteroid_type = 6


\* C23: every asteroid spawned during Playing has a size category of the
\* list that the difficulty in force allows for the asteroid's type.
C23_AllowedSize ==
  \A i \in DOMAIN game_state.asteroids :
    LET a == game_state.asteroids[i]
        sizes == DIFFICULTY_SIZE_RESTRICTIONS[difficulty][a.asteroid_type + 1]
    IN  \E j \in DOMAIN sizes : sizes[j] = a.size_category

\* an asteroid of the largest size a restricted list allows is alive: a
\* medium one of type 0 under the first tier, whose list stops at medium
C23_Witness ==
  /\ difficulty = "Empty Space"
  /\ \E i \in DOMAIN game_state.asteroids :
       /\ game_state.asteroids[i].asteroid_type = 0
       /\ game_state.asteroids[i].size_category = "medium"


\* ------------------------------------------------------------------------
\* Properties of the asteroids
\* ------------------------------------------------------------------------
\* d is the integer part of base_damage[t] * size_multiplier[s]
IsIntegerPart(d, t, s) ==
  LET tenths == ASTEROID_BASE_DAMAGE[t + 1] * ASTEROID_SIZE_DAMAGE_MULTIPLIERS[s]
  IN  d * 10 <= tenths /\ tenths < (d + 1) * 10

\* the damages of the new asteroids and of the asteroids of the episode,
\* and the amount that a collision of the step has taken from the health
DamageOfAsteroids ==
  /\ \A t \in 0..6 : \A s \in DOMAIN ASTEROID_SIZE_DAMAGE_MULTIPLIERS :
       IsIntegerPart(Asteroid(t, s).damage, t, s)
  /\ \A i \in DOMAIN game_state'.asteroids :
       LET a == game_state'.asteroids[i]
       IN  IsIntegerPart(a.damage, a.asteroid_type, a.size_category)
  /\ ( /\ ~game_state.transition_out
       /\ game_state'.asteroid_hits # <<>>
       /\ game_state'.player.since_hit = 0 )
     => \E d \in 0..(2 * PLAYER_MAX_HEALTH) :
          /\ IsIntegerPart(d, game_state'.asteroid_hits[1].asteroid_type,
                           game_state'.asteroid_hits[1].size_category)
          /\ game_state'.player.health
               = Max(0, game_state.player.health - d)

\* C24: the damage of an asteroid of type t and size s is the integer part
\* of base_damage[t] * size_multiplier[s], for every t in 0..6 and every s;
\* it stays so while the asteroid lives, and it is the amount that a
\* collision takes from the health.
C24_AsteroidDamage == [][DamageOfAsteroids]_vars

\* a medium asteroid of type 0, whose product 7.5 has a fractional part,
\* has just hit the player at full health and 7 was taken
C24_Witness ==
  /\ game_state.asteroid_hits # <<>>
  /\ game_state.asteroid_hits[1].asteroid_type = 0
  /\ game_state.asteroid_hits[1].size_category = "medium"
  /\ game_state.player.since_hit = 0
  /\ game_state.player.health = PLAYER_MAX_HEALTH - 7


\* the position of a lies in the screen rectangle widened on every side by
\* twice the size of a, borders included
InExpandedScreen(a) ==
  /\ -2 * a.actual_size * TicksPerSecond <= a.x
  /\ a.x <= (a.screen_width + 2 * a.actual_size) * TicksPerSecond
  /\ -2 * a.actual_size * TicksPerSecond <= a.y
  /\ a.y <= (a.screen_height + 2 * a.actual_size) * TicksPerSecond

\* a living asteroid has ended no update outside the widened rectangle, and
\* its update kills it exactly when the move has taken it outside
CulledAtExit ==
  asteroid.alive =>
    /\ InExpandedScreen(asteroid)
    /\ asteroid' # asteroid =>
         (asteroid'.alive <=> InExpandedScreen(asteroid'))

\* C25: the motion update removes an asteroid only when its position is
\* outside the screen rectangle widened by twice its size on some side, and
\* in the first update that ends there; an asteroid inside the widened
\* rectangle, a just spawned one included, is not removed.
C25_OffScreenCulling == [][CulledAtExit]_vars

\* an asteroid spawned on the left has crossed the screen and was removed
\* beyond the right border of the widened rectangle
C25_Witness ==
  /\ ~asteroid.alive
  /\ asteroid.updates >= 2
  /\ asteroid.vx > 0
  /\ asteroid.x > (asteroid.screen_width + 2 * asteroid.actual_size)
                    * TicksPerSecond


\* ------------------------------------------------------------------------
\* Properties of the score and of the booms of an episode
\* ------------------------------------------------------------------------
\* C26: while the controller stays in Playing the score does not decrease
\* from one step to the next, whatever the step is: a frame update with its
\* boom resolutions and pickups, or a handled event, F11 included.
C26_ScoreNeverDecreases ==
  [][(current_state = STATE_PLAYING /\ current_state' = STATE_PLAYING)
       => game_state'.score >= game_state.score]_vars

\* a step inside Playing that lowers the score leaves the data of an
\* episode that has not started: the states were constructed anew
ScoreLostOnlyAtRecreation ==
  [][(current_state = STATE_PLAYING /\ current_state' = STATE_PLAYING
        /\ game_state'.score < game_state.score)
       => Fresh(game_state')]_vars


\* the booms among the power-ups that the frame's input in has the player
\* collect
BoomsCollected(gs, in) ==
  {i \in DOMAIN gs.powerups :
     in.pfate[i] = "collected" /\ gs.powerups[i].type_id = POWERUP_BOOM_ID}

\* C27: an update leaves the boom flag and the boom centre set exactly when
\* a boom was collected in its frame, so the update that applies the area
\* effect clears both; an update that starts without a pending boom
\* destroys nothing and awards no bonus; the bonus of a resolving update is
\* BOOM_BONUS for each asteroid it destroys, each asteroid counted once,
\* also when several booms were collected in the frame before.
C27_BoomResolvedOnce ==
  ~game_state.transition_out =>
    \A dt \in DtValues : \A in \in PowerupInputs(dt) :
      LET after == game_update(game_state, dt, in).state
          booms == BoomsCollected(game_state, in)
          destroyed == after.boom_destroyed - game_state.boom_destroyed
          bonus == after.score - game_state.score - dt * 10
      IN  /\ after.boom_effect_active <=> booms # {}
          /\ after.boom_center # NONE <=> booms # {}
          /\ after.booms_collected = Cardinality(booms)
          /\ bonus = BOOM_BONUS * TicksPerSecond * destroyed
          /\ destroyed \in 0..Len(game_state.asteroids)
          /\ ~game_state.boom_effect_active => destroyed = 0

\* two booms were collected in the same frame and wait, with an asteroid
\* alive, for the update that resolves them
C27_Witness ==
  /\ game_state.asteroids # <<>>
  /\ game_state.booms_collected = 2
  /\ game_state.boom_effect_active
  /\ game_state.boom_center # NONE


\* ------------------------------------------------------------------------
\* Properties of the spawn timers
\* ------------------------------------------------------------------------
\* C28: an update adds at most one asteroid and at most one power-up to
\* those that the frame leaves alive, however long the frame is; a spawn
\* timer that has reached its interval is 0 after the update and has a newly
\* drawn interval, the power-up timer also when the cap has made it skip the
\* spawn; a timer that has not reached its interval has advanced by dt and
\* spawned nothing.
C28_OneSpawnPerUpdate ==
  ~game_state.transition_out =>
    \A dt \in DtValues : \A in \in PowerupInputs(dt) :
      LET after == game_update(game_state, dt, in).state
          kept == Len(WithFate(game_state.asteroids, BlastFate(game_state, in),
                               {"stay", "hit"}, 1))
          pkept == Len(WithFate(game_state.powerups, in.pfate, {"stay"}, 1))
          live == Len(LivePowerUps(game_state, in))
      IN  /\ IF SpawnDue(game_state, dt)
             THEN /\ Len(after.asteroids) = kept + 1
                  /\ after.asteroid_spawn_timer = 0
                  /\ after.next_spawn_interval \in SpawnIntervals(difficulty)
             ELSE /\ Len(after.asteroids) = kept
                  /\ after.asteroid_spawn_timer
                       = game_state.asteroid_spawn_timer + Dt(dt)
                  /\ after.next_spawn_interval
                       = game_state.next_spawn_interval
          /\ IF PowerupDue(game_state, dt)
             THEN /\ Len(after.powerups)
                       = pkept + (IF live < MAX_ACTIVE_POWERUPS THEN 1 ELSE 0)
                  /\ after.powerup_spawn_timer = 0
                  /\ after.next_powerup_spawn_interval
                       \in PowerupSpawnIntervals
             ELSE /\ Len(after.powerups) = pkept
                  /\ after.powerup_spawn_timer
                       = game_state.powerup_spawn_timer + Dt(dt)
                  /\ after.next_powerup_spawn_interval
                       = game_state.next_powerup_spawn_interval

\* a frame longer than twice the asteroid interval has ended with the timer
\* at 0 and one asteroid, and the power-up timer was re-armed at the cap
C28_Witness ==
  /\ game_state.asteroid_spawn_timer = 0
  /\ Len(game_state.asteroids) = 1
  /\ 2 * game_state.next_spawn_interval <= Dt(MaxDt)
  /\ game_state.powerup_log = "skipped"
  /\ game_state.powerup_spawn_timer = 0


\* ------------------------------------------------------------------------
\* Properties of the menus
\* ------------------------------------------------------------------------
\* a step taken in the Menu state: the two transitions are not in progress
\* together; an event of evs handled while one is in progress leaves the
\* MenuState as it is; a frame of the fade-out adds its dt to the fade time
\* and switches to Countdown when the fade time reaches FADE_DURATION
MenuTransitionStep(evs) ==
  current_state = STATE_MENU =>
    /\ ~(menu_state.transition_out /\ menu_state.menu_transition)
    /\ ~(menu_state'.transition_out /\ menu_state'.menu_transition)
    /\ (menu_state.transition_out \/ menu_state.menu_transition) =>
         \A e \in evs :
           \A result \in {NONE, STATE_COUNTDOWN, STATE_SETTINGS, STATE_MENU} :
             \A interval \in SpawnIntervals(difficulty) :
               \A pinterval \in PowerupSpawnIntervals :
                 HandleEventWith(e, result, interval, pinterval)
                 => /\ current_state' = STATE_MENU
                    /\ menu_state' = menu_state
    /\ menu_state.transition_out =>
         \A dt \in DtValues : \A interval \in SpawnIntervals(difficulty) :
           \A pinterval \in PowerupSpawnIntervals :
             FrameWith(dt, NoInputs(interval, pinterval))
             => IF menu_state.transition_timer + Dt(dt) >= Dur(FADE_DURATION)
                THEN current_state' = STATE_COUNTDOWN
                ELSE /\ current_state' = STATE_MENU
                     /\ menu_state'.transition_out
                     /\ menu_state'.transition_timer
                          = menu_state.transition_timer + Dt(dt)

\* C29: in the Menu state the fade-out to Countdown and a switch between
\* the main menu and the settings are never in progress together; while
\* one of them is in progress a handled event changes neither the active
\* menu nor any transition; the fade-out, once begun, reaches Countdown at
\* the update at which its accumulated dt reaches FADE_DURATION.
C29_MenuTransitions == [][MenuTransitionStep(Events)]_vars

\* the same for all events but the fullscreen key
MenuTransitionsWithoutF11 ==
  [][MenuTransitionStep(Events \ {"K_F11"})]_vars


\* exactly one item of mn is selected, it is enabled and selected_index is
\* its index; the item whose activate() was called is enabled
OneSelected(mn) ==
  /\ Cardinality({i \in DOMAIN mn.items : mn.items[i].selected}) = 1
  /\ mn.selected_index + 1 \in DOMAIN mn.items
  /\ mn.items[mn.selected_index + 1].selected
  /\ mn.items[mn.selected_index + 1].enabled
  /\ mn.activated_index # NONE =>
       /\ mn.activated_index + 1 \in DOMAIN mn.items
       /\ mn.items[mn.activated_index + 1].enabled

\* the index of the first enabled item met from index from in direction
\* step, around the list
NextEnabled(mn, from, step) ==
  LET n == Len(mn.items)
      k == CHOOSE k \in 1..n :
             /\ mn.items[((from + step * k) % n) + 1].enabled
             /\ \A j \in 1..(k - 1) :
                  ~mn.items[((from + step * j) % n) + 1].enabled
  IN  (from + step * k) % n

\* a step of a menu whose first item is enabled
MenuSelectionStep ==
  (menu.items # <<>> /\ menu.items[1].enabled) =>
    /\ OneSelected(menu)
    /\ OneSelected(menu')
    /\ MenuHandleEventWith("K_DOWN", {}) =>
         menu'.selected_index = NextEnabled(menu, menu.selected_index, 1)
    /\ MenuHandleEventWith("K_UP", {}) =>
         menu'.selected_index = NextEnabled(menu, menu.selected_index, -1)
    /\ \A pos \in SUBSET (0..(Len(menu.items) - 1)) :
         \A e \in {"MOUSEMOTION", "MOUSEBUTTONDOWN"} :
           MenuHandleEventWith(e, pos) =>
             \/ menu'.selected_index = menu.selected_index
             \/ menu'.selected_index \in pos

\* C30: in a menu whose first item is enabled, before and after every up
\* or down key, mouse move and click exactly one item is selected, it is
\* enabled and selected_index is its index; the keys move the selection to
\* the nearest enabled item in their direction, over the disabled ones; the
\* mouse moves it only to an enabled item under the pointer; no disabled
\* item is selected or activated.
C30_OneEnabledSelection == [][MenuSelectionStep]_vars

\* in a menu of three items whose second is disabled, the selection has
\* moved from the first item to the third
C30_Witness ==
  /\ Len(menu.items) = 3
  /\ menu.items[1].enabled
  /\ ~menu.items[2].enabled
  /\ menu.selected_index = 2
  /\ menu.items[3].selected
  /\ ~menu.items[1].selected
  /\ menu.navigated

====
